---- MODULE Spec2Model ----
(***************************************************************************)
(* State-machine model of skye-bot: the Memory Store (src/src/memory.ts),   *)
(* the per-thread rate limiter, the access gate, the update handlers and    *)
(* the tool-calling loop chat() (src/src/index.ts), the chat-config store   *)
(* and the config wizard (src/unnamed/part_003).                            *)
(***************************************************************************)
EXTENDS Integers, Sequences, FiniteSets, TLC

VARIABLES
    now,        \* Date.now(), in milliseconds
    ticks,      \* history: number of clock advances so far
    store,      \* memory.ts `store`: Map<chatId, MemoryEntry[]>
    memLog,     \* history: per chat, the addMemory/deleteMemory/clearMemories calls made
    memRet,     \* history: the last Memory Store call and what it returned (as text)
    memOps,     \* history: number of Memory Store calls made
    lastCall,   \* index.ts `lastCall`: Map<threadKey, number>
    rateLog,    \* history: per thread key, the times at which canRespond returned true
    rateRet,    \* history: the last canRespond call of the limiter harness and its result
    rateOps,    \* history: number of canRespond calls made
    chPc,       \* chat(): "idle", "waiting" (request in flight), "tools", "returned", "threw"
    chChat,     \* chat(): its chatId
    chMsgs,     \* chat(): the transcript `msgs`
    chIter,     \* chat(): `iterations`
    chPending,  \* chat(): the tool calls of the current response still to be visited
    chResult,   \* chat(): the value returned
    chErr,      \* history: what made chat() throw: "none", "backend" or "tool"
    chReqs,     \* history: the transcript of every request issued to the backend
    chResps,    \* history: every response the backend gave
    chExec,     \* history: ids of the tool calls of the current response that were executed
    chTool,     \* chat(): the addMemory/deleteMemory call it is suspended in, and its result text
    cfgStore,   \* chatConfig `store`: Map<chatId, ChatApiConfig>
    wizardState,    \* configCommand `wizardState`: Map<chatId, "api_key" | "base_url">
    history,    \* index.ts `memory`: Map<threadKey, message[]>, the rolling history
    supportsImages, \* openai `_supportsImages`: "no" (false) or "unknown" (null)
    tasks,      \* the exchanges running in the background (the `void (async () => ...)()` bodies)
    llmCalls,   \* history: the requests issued to the LLM backend
    updates,    \* history: number of inbound updates handled
    logs,       \* chatLog `logs`: Map<chatId, LogEntry[]>
    counters,   \* chatLog `counters`: Map<chatId, number>
    summaries,  \* chatLog `summaries`: Map<chatId, string>
    chatTitles, \* chatLog `chatTitles`: Map<chatId, string>
    sumTasks,   \* the summarizeChat calls in flight
    logRet,     \* history: the last logMessage call and what it returned
    logHist,    \* history: per chat, every entry ever passed to logMessage
    sinceReset, \* history: per chat, the logMessage calls since its counter was last reset
    sumDone,    \* history: the last summarizeChat call that completed, and how many did
    ctxIn,      \* the message sequence given to buildContext / sanitizeContext
    ctxOut,     \* history: the sequence the last call returned
    ctxOp,      \* history: the last call made: "none", "build" or "sanitize"
    lastUpdate, \* history: the last inbound update handled, and how it was routed
    cfgOp,      \* history: the last call made to the chat-config store
    disk,       \* the data files memories.json, chat-configs.json, summaries.json
    writes,     \* the persist() calls in flight
    diskLog,    \* history: mutations made, module loads made, whether a load raised
    talk        \* history: the chat() calls made for exchanges, what was streamed and replied

memVars  == <<store, memRet>>
memHist  == <<memLog, memOps>>
rateVars == <<lastCall>>
rateHist == <<rateLog, rateRet, rateOps>>
chatVars == <<chPc, chChat, chMsgs, chIter, chPending, chResult, chErr,
              chReqs, chResps, chExec, chTool>>
botVars  == <<cfgStore, wizardState, history, supportsImages, tasks, llmCalls,
              updates>>
clockVars == <<now, ticks>>
logVars  == <<logs, counters, summaries, chatTitles, sumTasks>>
logHistVars == <<logRet, logHist, sinceReset, sumDone>>
ctxVars  == <<ctxIn, ctxOut, ctxOp>>
sideVars == <<logVars, logHistVars, ctxVars>>
wizHist  == <<lastUpdate>>
cfgHist  == <<cfgOp>>
diskVars == <<disk, writes, diskLog>>
talkHist == <<talk>>
ghostVars == <<wizHist, cfgHist, diskVars, talkHist>>
vars     == <<clockVars, memVars, memHist, rateVars, rateHist, chatVars, botVars, sideVars,
              ghostVars>>

----------------------------------------------------------------------------
(* Bounds of the model                                                      *)

MaxMemOps  == 3      \* Memory Store calls per behaviour
MaxRateOps == 4      \* canRespond calls per behaviour
MaxTicks   == 3      \* clock advances per behaviour
MaxUpdates == 3      \* inbound updates per behaviour
MaxTasks   == 2      \* background exchanges in flight at once
MaxToolRounds == 1   \* responses with tool calls per background exchange
MaxBotTicks == 1     \* clock advances while the bot handles updates
MaxLogged  == 52     \* logMessage calls for the busiest chat
MaxLoggedElsewhere == 1   \* logMessage calls for any other chat
MaxSummaries == 1    \* summarizeChat calls per behaviour
MaxCtxLen  == 22     \* messages in a sequence given to buildContext
MaxMixed   == 2      \* messages of a sequence that may be multi-part
MaxWizUpdates == 3   \* inbound updates per behaviour of the config wizard
MaxDiskOps == 3      \* changes made to the persisted stores per behaviour
MaxRestarts == 2     \* restarts of the process per behaviour
MaxTalks   == 2      \* exchanges (chat() calls made by a handler) per behaviour
MaxResponses == 7    \* backend responses per behaviour of the exchanges
MaxSumLogged == 22   \* logMessage calls of the busiest chat when summaries repeat
MaxResummaries == 3  \* summarizeChat calls per behaviour when summaries repeat
MaxThreadUpdates == 6   \* inbound updates per behaviour of the thread harness
MaxScopeResponses == 2  \* backend responses per behaviour of the memory-scope harness
MaxHistUpdates == 9     \* inbound updates per behaviour of the rolling-history harness
MaxRecalls == 3         \* exchanges per behaviour of the memory-recall harness
MaxRecallResponses == 6 \* backend responses per behaviour of the memory-recall harness

(* Inputs                                                                   *)

Chats      == {1, 2, -3}          \* chat ids; negative ids are groups
MemChats   == {1, 2}              \* chats whose Memory Store is exercised
RateChats  == {1, 2}              \* chats whose threads call the rate limiter
Threads    == {7}                 \* forum thread ids
NoThread   == -1                  \* message_thread_id undefined (real ids are positive)
StartTime  == 1000000             \* Date.now() at start-up (any real clock is far past 2000)
TickSteps  == {1, 1999}           \* clock advances between two events, in ms
Contents   == {"blue", "tea"}     \* memory contents
IdSuffixes == {"k3", "9xq2mz7a"}   \* Math.random().toString(36).slice(2, 10)
NoValue    == "undefined"         \* JavaScript undefined / an absent Map entry

----------------------------------------------------------------------------
(* Map helpers: a JavaScript Map is a function whose domain is its key set  *)

MapHas(m, k) == k \in DOMAIN m

MapSet(m, k, v) == [x \in (DOMAIN m) \cup {k} |-> IF x = k THEN v ELSE m[x]]

MapDelete(m, k) == [x \in (DOMAIN m) \ {k} |-> m[x]]

EmptyMap == [x \in {} |-> NoValue]

\* JavaScript truthiness of an optional string
Truthy(text) == text # NoValue /\ text # ""

----------------------------------------------------------------------------
(* Memory Store: src/src/memory.ts                                          *)

\* generateId(): "mem_" followed by the base-36 digits Math.random() gave
generateId(suffix) == "mem_" \o suffix

MemoryIds == {generateId(s) : s \in IdSuffixes}

NoEntry == [id |-> NoValue, content |-> NoValue, createdAt |-> 0]

\* getMemories(chatId): store.get(chatId) ?? []
getMemories(chatId) == IF MapHas(store, chatId) THEN store[chatId] ELSE <<>>

\* a plausible slip: unshift instead of push
PushFront(list, entry) == <<entry>> \o list

\* Array.prototype.push
Push(list, entry) == Append(list, entry)

RECURSIVE FindFrom(_, _, _)
FindFrom(entries, id, i) ==
    IF i > Len(entries) THEN -1
    ELSE IF entries[i].id = id THEN i - 1
    ELSE FindFrom(entries, id, i + 1)

\* a plausible slip: the comparison inverted (e.id !== id)
RECURSIVE FindFromNeq(_, _, _)
FindFromNeq(entries, id, i) ==
    IF i > Len(entries) THEN -1
    ELSE IF entries[i].id # id THEN i - 1
    ELSE FindFromNeq(entries, id, i + 1)

FindIndexNeq(entries, id) == FindFromNeq(entries, id, 1)

\* entries.findIndex((e) => e.id === id): 0-based index of the first match, or -1
FindIndex(entries, id) == FindFrom(entries, id, 1)

\* entries.splice(idx, 1) for a 0-based idx
Splice1(entries, idx) ==
    SubSeq(entries, 1, idx) \o SubSeq(entries, idx + 2, Len(entries))

\* a plausible slip: one list for all chats, kept under the first chat id
AddMemoryShared(chatId, content, suffix, persistOk) ==
    LET entry == [id |-> generateId(suffix), content |-> content, createdAt |-> now]
        s1    == IF MapHas(store, 1) THEN store ELSE MapSet(store, 1, <<>>)
    IN  /\ store' = MapSet(s1, 1, Push(s1[1], entry))
        /\ memRet' = [op |-> "add", chatId |-> chatId, id |-> entry.id, entry |-> entry,
                      ret |-> IF persistOk THEN entry.id ELSE NoValue, threw |-> ~persistOk]

\* a Memory Store call that has made its change and awaits persist(): the
\* call, the entry it made and the value it returns when persist() resolves
NoCall == [op |-> "none", chatId |-> 0, id |-> NoValue, entry |-> NoEntry, ret |-> NoValue]

\* addMemory(chatId, content) up to its `await persist()`
AddMemoryCall(chatId, content, suffix) ==
    LET entry == [id |-> generateId(suffix), content |-> content, createdAt |-> now]
    IN  [op |-> "add", chatId |-> chatId, id |-> entry.id, entry |-> entry, ret |-> entry.id]

\* the Map after the push of addMemory
AddMemoryStore(call) ==
    LET s1 == IF MapHas(store, call.chatId) THEN store ELSE MapSet(store, call.chatId, <<>>)
    IN  MapSet(s1, call.chatId, Push(s1[call.chatId], call.entry))

\* deleteMemory(chatId, id) up to its `await persist()`, or to its
\* `return false` when the chat has no list or the list has no such id
DeleteMemoryCall(chatId, id) ==
    [op |-> "del", chatId |-> chatId, id |-> id, entry |-> NoEntry,
     ret |-> IF MapHas(store, chatId) /\ FindIndex(store[chatId], id) # -1
             THEN "true" ELSE "false"]

\* the Map after the splice of deleteMemory
DeleteMemoryStore(call) ==
    IF call.ret = "true"
    THEN [store EXCEPT ![call.chatId] = Splice1(@, FindIndex(@, call.id))]
    ELSE store

\* the outcome of a call once its persist() has settled: its value, or the
\* rejection of persist()
Returned(call, persistOk) ==
    [op |-> call.op, chatId |-> call.chatId, id |-> call.id, entry |-> call.entry,
     ret |-> IF persistOk THEN call.ret ELSE NoValue, threw |-> ~persistOk]

\* addMemory(chatId, content): the entry is pushed before persist() is awaited,
\* so it stays in the store when persist() rejects (persistOk = FALSE)
AddMemory(chatId, content, suffix, persistOk) ==
    LET call == AddMemoryCall(chatId, content, suffix)
    IN  /\ store' = AddMemoryStore(call)
        /\ memRet' = Returned(call, persistOk)

\* deleteMemory(chatId, id): persist() is awaited only after a splice
DeleteMemory(chatId, id, persistOk) ==
    LET call == DeleteMemoryCall(chatId, id)
    IN  /\ store' = DeleteMemoryStore(call)
        /\ memRet' = Returned(call, persistOk \/ call.ret = "false")

\* clearMemories(chatId)
ClearMemories(chatId, persistOk) ==
    /\ store' = MapDelete(store, chatId)
    /\ memRet' = [op |-> "clear", chatId |-> chatId, id |-> NoValue, entry |-> NoEntry,
                  ret |-> NoValue, threw |-> ~persistOk]

----------------------------------------------------------------------------
(* Rate limiter: src/src/index.ts                                           *)

ThreadIds == Threads \cup {NoThread}

\* a plausible slip: the thread id left out of the key (per-chat state)
threadKeyChatOnly(chatId, threadId) == ToString(chatId)

\* threadKey(chatId, threadId): "chatId:threadId", or "chatId" without a thread id
threadKey(chatId, threadId) ==
    IF threadId # NoThread
    THEN ToString(chatId) \o ":" \o ToString(threadId)
    ELSE ToString(chatId)

CooldownMs == 2000

\* a plausible slip: <= in place of <
TooSoonLeq(nowMs, prev) == nowMs - prev <= CooldownMs

\* the test of canRespond: now - prev < 2000
TooSoon(nowMs, prev) == nowMs - prev < CooldownMs

\* lastCall.get(key) ?? 0
PrevCall(key) == IF MapHas(lastCall, key) THEN lastCall[key] ELSE 0

\* canRespond(key): the value it returns
canRespond(key) == ~TooSoon(now, PrevCall(key))

\* a plausible slip: the time of the call recorded for a denied call too
CanRespondAlways(key) == lastCall' = MapSet(lastCall, key, now)

\* canRespond(key): its effect, lastCall.set(key, now) when it returns true
CanRespond(key) ==
    lastCall' = IF canRespond(key) THEN MapSet(lastCall, key, now) ELSE lastCall

----------------------------------------------------------------------------
(* Tool-calling loop: chat() in src/src/index.ts, executeMemoryTool in      *)
(* src/src/memory.ts, buildSystemMessage in src/eslint.config.js            *)

SystemPrompt == "SYSTEM_PROMPT"

\* the lines buildSystemMessage adds for the saved memories
RECURSIVE MemoryLines(_)
MemoryLines(memories) ==
    IF memories = <<>> THEN ""
    ELSE "\n- [" \o Head(memories).id \o "] " \o Head(memories).content
         \o MemoryLines(Tail(memories))

\* message content: a string, or an array of text / image_url parts
TextContent(text) == [isArray |-> FALSE, text |-> text, parts |-> <<>>]

PartsContent(parts) == [isArray |-> TRUE, text |-> NoValue, parts |-> parts]

TextPart(text) == [type |-> "text", text |-> text, url |-> NoValue]

ImagePart(url) == [type |-> "image_url", text |-> NoValue, url |-> url]

\* a chat-completion message
Msg(role, content, toolCalls, toolCallId) ==
    [role |-> role, content |-> content, tool_calls |-> toolCalls,
     tool_call_id |-> toolCallId]

\* the paragraph buildSystemMessage puts under "## Memory"
MemoryToolsNote ==
    "You have access to long-term memory tools. Use save_memory to remember important information when asked or when you encounter notable facts (names, preferences, project details). Use delete_memory with the memory ID to forget something when asked."

\* the paragraph buildSystemMessage ends every system message with
SenderPrefixNote ==
    "Messages from users are prefixed with their name and Telegram handle like [Name (@handle)]. Use this to know who is speaking."

\* buildSystemMessage(memories), without a chat context
buildSystemMessage(memories) ==
    Msg("system",
        TextContent(SystemPrompt \o "\n\n## Memory\n\n" \o MemoryToolsNote
                    \o (IF Len(memories) > 0
                        THEN "\n\nSaved memories for this chat:" \o MemoryLines(memories)
                        ELSE "")
                    \o "\n\n" \o SenderPrefixNote),
        <<>>, NoValue)

\* JSON.parse of the argument texts a backend may send; ok = FALSE is a SyntaxError
JsonParse(text) ==
    CASE text = "{\"content\":\"blue\"}" ->
            [ok |-> TRUE, content |-> "blue", memory_id |-> NoValue]
      [] text = "{\"memory_id\":\"mem_k3\"}" ->
            [ok |-> TRUE, content |-> NoValue, memory_id |-> "mem_k3"]
      [] text = "{}" ->
            [ok |-> TRUE, content |-> NoValue, memory_id |-> NoValue]
      [] OTHER ->
            [ok |-> FALSE, content |-> NoValue, memory_id |-> NoValue]

ToolCall(id, type, name, arguments) ==
    [id |-> id, type |-> type, name |-> name, arguments |-> arguments]

\* a response of the backend: choices[0] may be missing, content may be null
\* (NoValue), tool_calls may be missing (hasCalls = FALSE) or an array
Response(choice, content, hasCalls, calls) ==
    [choice |-> choice, content |-> content, hasCalls |-> hasCalls, calls |-> calls]

SaveBlue   == ToolCall("call_a", "function", "save_memory", "{\"content\":\"blue\"}")
DeleteK3   == ToolCall("call_b", "function", "delete_memory", "{\"memory_id\":\"mem_k3\"}")
SaveBadArg == ToolCall("call_c", "function", "save_memory", "{\"content\":")
OtherTool  == ToolCall("call_d", "function", "search_web", "{}")
CustomCall == ToolCall("call_e", "custom", "save_memory", "{\"content\":\"blue\"}")

FinalResponses ==
    { Response(TRUE, "hi", FALSE, <<>>),
      Response(TRUE, "", FALSE, <<>>),
      Response(TRUE, NoValue, FALSE, <<>>),
      Response(TRUE, "hi", TRUE, <<>>),
      Response(FALSE, NoValue, FALSE, <<>>) }

ToolResponses ==
    { Response(TRUE, NoValue, TRUE, <<SaveBlue>>),
      Response(TRUE, "one moment", TRUE, <<DeleteK3, SaveBlue>>),
      Response(TRUE, NoValue, TRUE, <<SaveBadArg>>),
      Response(TRUE, NoValue, TRUE, <<DeleteK3, SaveBadArg>>),
      Response(TRUE, NoValue, TRUE, <<CustomCall, DeleteK3>>),
      Response(TRUE, NoValue, TRUE, <<OtherTool>>) }

Responses == FinalResponses \cup ToolResponses

\* _supportsImages once checkModelCapabilities() has settled and the bot starts:
\* false ("no") or null ("unknown"); true passes both tests made on it
\* (=== false, !== false) exactly as null does
ImageSupport == {"no", "unknown"}

ChatSuffixes == {"k3"}            \* ids generated while chat() runs
UserMessages == << Msg("user", TextContent("[Ann] hello"), <<>>, NoValue) >>

MaxIterations == 5

\* a plausible slip: testing the tool_calls field, not its length
HasToolCallsField(resp) == resp.choice /\ resp.hasCalls

\* choice?.message?.tool_calls?.length, as a truth value
HasToolCalls(resp) == resp.choice /\ resp.hasCalls /\ Len(resp.calls) > 0

\* choice?.message?.content || ""
ContentOrEmpty(resp) ==
    IF resp.choice /\ resp.content # NoValue /\ resp.content # ""
    THEN resp.content ELSE ""

\* executeMemoryTool: the text it returns for a call of the Memory Store
ToolResultText(tc, call) ==
    LET args == JsonParse(tc.arguments)
    IN  IF tc.name = "save_memory"
        THEN "Memory saved with ID " \o call.id \o "."
        ELSE IF tc.name = "delete_memory"
        THEN IF call.ret = "true"
             THEN "Memory " \o args.memory_id \o " deleted."
             ELSE "Memory " \o args.memory_id \o " not found."
        ELSE "Unknown tool: " \o tc.name

\* executeMemoryTool(chatId, toolCall) up to its first await on file I/O, or
\* to its end when it has none: whether JSON.parse threw, whether it is now
\* suspended in persist(), the Memory Store call made, the Map after it and
\* the text it returns when it resolves
ExecuteMemoryTool(chatId, tc, suffix) ==
    LET args == JsonParse(tc.arguments)
        call == IF ~args.ok THEN NoCall
                ELSE IF tc.name = "save_memory"
                THEN AddMemoryCall(chatId, args.content, suffix)
                ELSE IF tc.name = "delete_memory"
                THEN DeleteMemoryCall(chatId, args.memory_id)
                ELSE NoCall
    IN  [threw |-> ~args.ok,
         suspends |-> call.op = "add" \/ (call.op = "del" /\ call.ret = "true"),
         call |-> call,
         store |-> IF call.op = "add" THEN AddMemoryStore(call)
                   ELSE IF call.op = "del" THEN DeleteMemoryStore(call)
                   ELSE store,
         text |-> ToolResultText(tc, call)]

\* chat() is suspended in no Memory Store call
NoTool == [call |-> NoCall, text |-> NoValue]

\* the for-loop over the tool calls from the head of `calls` on, up to the
\* next await on file I/O: calls of another type are skipped, a call that
\* needs no file I/O is answered at once, and the loop stops where a call
\* throws ("threw"), is suspended in persist() ("persist") or none is left
\* ("end"); exec lists the calls executeMemoryTool was called for, and done
\* is the last Memory Store call that returned on the way (a deleteMemory
\* that found nothing), or NoCall
RECURSIVE VisitCalls(_, _, _, _)
VisitCalls(chatId, msgs, calls, suffix) ==
    IF calls = <<>>
    THEN [stop |-> "end", msgs |-> msgs, pending |-> <<>>, exec |-> <<>>, done |-> NoCall]
    ELSE LET tc == Head(calls)
         IN  IF tc.type # "function"
             THEN VisitCalls(chatId, msgs, Tail(calls), suffix)
             ELSE LET r == ExecuteMemoryTool(chatId, tc, suffix)
                  IN  IF r.threw
                      THEN [stop |-> "threw", msgs |-> msgs, pending |-> calls,
                            exec |-> <<tc.id>>, done |-> NoCall]
                      ELSE IF r.suspends
                      THEN [stop |-> "persist", msgs |-> msgs, pending |-> calls,
                            exec |-> <<tc.id>>, done |-> NoCall]
                      ELSE LET rest == VisitCalls(chatId,
                                           Append(msgs, Msg("tool", TextContent(r.text),
                                                            <<>>, tc.id)),
                                           Tail(calls), suffix)
                           IN  [rest EXCEPT !.exec = <<tc.id>> \o @,
                                            !.done = IF @.op = "none" THEN r.call ELSE @]

\* the end of one pass of the while loop: iterations++, then the loop test and
\* either the next askSkyeStream(msgs, ...) or `return ""`
LoopAgain(msgs) ==
    /\ chIter' = chIter + 1
    /\ chMsgs' = msgs
    /\ chPending' = <<>>
    /\ IF chIter + 1 <= MaxIterations
       THEN /\ chPc' = "waiting"
            /\ chReqs' = Append(chReqs, msgs)
            /\ chResult' = chResult
       ELSE /\ chPc' = "returned"
            /\ chReqs' = chReqs
            /\ chResult' = ""

\* a plausible slip: the system message built without the saved memories
ChatStartNoMemories(chatId, messages) ==
    LET msgs == <<buildSystemMessage(<<>>)>> \o messages
    IN  /\ chPc = "idle"
        /\ chPc' = "waiting"
        /\ chChat' = chatId
        /\ chMsgs' = msgs
        /\ chIter' = 0
        /\ chReqs' = <<msgs>>
        /\ UNCHANGED <<chPending, chResult, chErr, chResps, chExec, chTool>>

\* chat(chatId, messages, ...) up to its first await: the system message is
\* built from the memories, and the first request is issued
ChatStart(chatId, messages) ==
    LET msgs == <<buildSystemMessage(getMemories(chatId))>> \o messages
    IN  /\ chPc = "idle"
        /\ chPc' = "waiting"
        /\ chChat' = chatId
        /\ chMsgs' = msgs
        /\ chIter' = 0
        /\ chReqs' = <<msgs>>
        /\ UNCHANGED <<chPending, chResult, chErr, chResps, chExec, chTool>>

\* a plausible slip: a failed request is issued once more
ChatBackendFailsRetries ==
    /\ chPc = "waiting"
    /\ chPc' = IF Len(chReqs) % 2 = 1 THEN "waiting" ELSE "threw"
    /\ chErr' = "backend"
    /\ chReqs' = IF Len(chReqs) % 2 = 1 THEN Append(chReqs, chMsgs) ELSE chReqs
    /\ UNCHANGED <<chChat, chMsgs, chIter, chPending, chResult, chResps, chExec, chTool>>

\* stream.finalChatCompletion() rejects: chat() throws
ChatBackendFails ==
    /\ chPc = "waiting"
    /\ chPc' = "threw"
    /\ chErr' = "backend"
    /\ UNCHANGED <<chChat, chMsgs, chIter, chPending, chResult, chReqs, chResps, chExec,
                   chTool>>

\* chat() goes on from the point v of its for-loop to its next await: it
\* throws, it is suspended in persist() with the Map already changed, or the
\* pass of the while loop ends
ChatGoesOn(v, suffix) ==
    IF v.stop = "threw"
    THEN /\ chPc' = "threw"
         /\ chErr' = "tool"
         /\ chMsgs' = v.msgs
         /\ chPending' = v.pending
         /\ chTool' = NoTool
         /\ UNCHANGED <<store, chIter, chResult, chReqs>>
    ELSE IF v.stop = "persist"
    THEN LET r == ExecuteMemoryTool(chChat, Head(v.pending), suffix)
         IN  /\ chPc' = "tools"
             /\ store' = r.store
             /\ chMsgs' = v.msgs
             /\ chPending' = v.pending
             /\ chTool' = [call |-> r.call, text |-> r.text]
             /\ UNCHANGED <<chErr, chIter, chResult, chReqs>>
    ELSE /\ LoopAgain(v.msgs)
         /\ chTool' = NoTool
         /\ UNCHANGED <<store, chErr>>

\* stream.finalChatCompletion() resolves with resp: return the content, or push
\* the assistant message and run the for-loop over its tool calls up to the
\* first await on file I/O
ChatRespond(resp, suffix) ==
    /\ chPc = "waiting"
    /\ chResps' = Append(chResps, resp)
    /\ UNCHANGED chChat
    /\ IF ~HasToolCalls(resp)
       THEN /\ chPc' = "returned"
            /\ chResult' = ContentOrEmpty(resp)
            /\ chExec' = <<>>
            /\ UNCHANGED <<memVars, chMsgs, chIter, chPending, chReqs, chErr, chTool>>
       ELSE LET msgs == Append(chMsgs, Msg("assistant", TextContent(resp.content),
                                           resp.calls, NoValue))
                v    == VisitCalls(chChat, msgs, resp.calls, suffix)
            IN  /\ chExec' = v.exec
                /\ memRet' = IF v.done.op = "none" THEN memRet ELSE Returned(v.done, TRUE)
                /\ ChatGoesOn(v, suffix)

\* the persist() that `await executeMemoryTool(chatId, tc)` is suspended in
\* settles: chat() throws, or pushes the tool message and goes on with the
\* for-loop up to the next await
ChatTool(suffix, persistOk) ==
    /\ chPc = "tools"
    /\ UNCHANGED <<chChat, chResps>>
    /\ IF ~persistOk
       THEN /\ chPc' = "threw"
            /\ chErr' = "tool"
            /\ chTool' = NoTool
            /\ memRet' = Returned(chTool.call, FALSE)
            /\ UNCHANGED <<store, chMsgs, chIter, chPending, chResult, chReqs, chExec>>
       ELSE LET tc   == Head(chPending)
                msgs == Append(chMsgs, Msg("tool", TextContent(chTool.text), <<>>, tc.id))
                v    == VisitCalls(chChat, msgs, Tail(chPending), suffix)
            IN  /\ chExec' = chExec \o v.exec
                /\ memRet' = Returned(IF v.done.op = "none" THEN chTool.call ELSE v.done,
                                      TRUE)
                /\ ChatGoesOn(v, suffix)

----------------------------------------------------------------------------
(* Context assembly: buildContext in src/src/contextBuilder.ts,             *)
(* sanitizeContext in src/src/index.ts, the capability check in             *)
(* src/src/utils/log.ts                                                     *)

ContextWindow == 20

\* the parts a multi-part content may be made of
PartInputs == {TextPart("a"), TextPart(""), ImagePart("u")}

\* every multi-part content of one to three parts, those no handler builds
\* included: the arguments sanitizeContext is given where it is checked as a
\* function of any message sequence
PartsInputs ==
    {<<p>> : p \in PartInputs}
    \cup (PartInputs \X PartInputs)
    \cup (PartInputs \X PartInputs \X PartInputs)

\* the sender tags and captions of the photos a thread receives: senderTag is
\* "" for an update without a sender, a caption may be missing
PhotoTags     == {"", "[Ann] "}
PhotoCaptions == {"", "look"}

\* tag.trim()
TrimTag(tag) == IF tag = "[Ann] " THEN "[Ann]" ELSE tag

\* the parts of the user message the photo handler builds: the caption behind
\* the sender tag, or the tag alone, or no text part at all, then the image
PhotoParts(tag, caption, dataUrl) ==
    (IF Truthy(caption) THEN <<TextPart(tag \o caption)>>
     ELSE IF Truthy(tag) THEN <<TextPart(TrimTag(tag))>>
     ELSE <<>>)
    \o <<ImagePart(dataUrl)>>

\* the n-th plain message of a sequence: its text carries its position
TextMsgAt(n) ==
    Msg(IF n % 2 = 0 THEN "assistant" ELSE "user",
        TextContent("m" \o ToString(n)), <<>>, NoValue)

\* the messages that may stand at position n of a rolling history: a plain
\* text message, or a user message built by the photo handler
MessageInputs(n) ==
    {TextMsgAt(n)}
    \cup {Msg("user", PartsContent(PhotoParts(tag, caption, "data:image/jpeg;base64")),
               <<>>, NoValue) : tag \in PhotoTags, caption \in PhotoCaptions}

\* _supportsImages after checkModelCapabilities(): true when the model is found
\* and its modality names "image", false when found without, else unchanged
checkModelCapabilities(before, found, imageModality) ==
    IF ~found THEN before
    ELSE IF imageModality THEN "yes" ELSE "no"

\* a plausible slip: one message too many
WindowStartOff(len) == IF len - ContextWindow > 0 THEN len - ContextWindow - 1 ELSE 0

\* Math.max(0, messages.length - 20)
WindowStart(len) == IF len - ContextWindow > 0 THEN len - ContextWindow ELSE 0

\* buildContext(messages): messages.slice(start)
buildContext(messages) ==
    SubSeq(messages, WindowStart(Len(messages)) + 1, Len(messages))

\* a plausible slip: the placeholder kept as a text part
PlaceholderAsPart == PartsContent(<<TextPart("[image]")>>)

\* the content of a message that had nothing but images
Placeholder == TextContent("[image]")

\* msg.content.filter((p) => p.type !== "image_url")
StripImages(parts) == SelectSeq(parts, LAMBDA p : p.type # "image_url")

\* the callback of messages.map in sanitizeContext
sanitizeMessage(msg) ==
    IF ~msg.content.isArray THEN msg
    ELSE LET textParts == StripImages(msg.content.parts)
         IN  IF Len(textParts) = 0
             THEN [msg EXCEPT !.content = Placeholder]
             ELSE IF Len(textParts) = 1 /\ Truthy(textParts[1].text)
             THEN [msg EXCEPT !.content = TextContent(textParts[1].text)]
             ELSE [msg EXCEPT !.content = PartsContent(textParts)]

\* a plausible slip: `if (modelSupportsImages()) return messages`, which takes
\* an unknown capability for a missing one
sanitizeForFalsy(capability, messages) ==
    IF capability = "yes" THEN messages
    ELSE [i \in 1..Len(messages) |-> sanitizeMessage(messages[i])]

\* sanitizeContext(messages) while modelSupportsImages() returns `capability`
sanitizeFor(capability, messages) ==
    IF capability # "no" THEN messages
    ELSE [i \in 1..Len(messages) |-> sanitizeMessage(messages[i])]

\* sanitizeContext(messages)
sanitizeContext(messages) == sanitizeFor(supportsImages, messages)

\* a plausible slip: the text handler leaves out sanitizeContext
RequestContextUnsanitized(kind, hist, userMsg) == buildContext(hist \o <<userMsg>>)

\* the context a handler hands to chat() for the user message of an exchange
\* and the thread's rolling history: the text handler sanitizes it, the photo
\* handler does not
RequestContext(kind, hist, userMsg) ==
    IF kind = "vision"
    THEN buildContext(hist \o <<userMsg>>)
    ELSE sanitizeContext(buildContext(hist \o <<userMsg>>))

\* the photo handler goes on to its vision path only when the model is not
\* known to lack image input: modelSupportsImages() === false returns early
VisionProceeds == supportsImages # "no"

----------------------------------------------------------------------------
(* Persisted stores: the load on import and persist() in src/src/memory.ts, *)
(* src/src/chatLog.ts and src/unnamed/part_003                              *)

\* a data file: missing, holding a JSON object ("json"), or holding a text
\* that JSON.parse rejects ("partial": empty, cut short, or the text of one
\* writeFile call followed by the rest of a longer one); len is the number
\* of characters in it
NoFile == [kind |-> "missing", data |-> EmptyMap, len |-> 0]

PartialFile == [kind |-> "partial", data |-> EmptyMap, len |-> 0]

\* Number(key) of a key written by String(k)
NumberKey(key) == CHOOSE c \in Chats : ToString(c) = key

\* obj[String(k)] = v for every entry of the Map, then JSON.stringify(obj)
Stringify(map) ==
    [kind |-> "json",
     data |-> [key \in {ToString(c) : c \in DOMAIN map} |-> map[NumberKey(key)]]]

\* a plausible slip: the load is not wrapped in try/catch
LoadRaisesUncaught(file) == file.kind = "partial"

\* whether the load on import raises: an error of readFileSync or JSON.parse
\* is swallowed by the catch block
LoadRaises(file) == FALSE

\* the Map after the load on import: empty when the file is missing
\* (existsSync) or does not parse (catch), else one entry per key of the object
LoadStore(file) ==
    IF file.kind = "missing" THEN EmptyMap
    ELSE IF file.kind # "json" THEN EmptyMap
    ELSE [c \in {NumberKey(key) : key \in DOMAIN file.data} |-> file.data[ToString(c)]]

\* persist() is called for file f after a change made for chat c: it awaits
\* access(DATA_DIR) first
Persisting(f, c) ==
    writes' = writes \cup {[id |-> diskLog.ops + 1, file |-> f, chat |-> c, pc |-> "access",
                            data |-> NoFile]}

\* the Map a file is written from
StoreOf(f) == IF f = "mem" THEN store ELSE IF f = "cfg" THEN cfgStore ELSE summaries

\* the length of one memory entry in JSON.stringify(obj, null, 2): its three
\* properties on a line each at depth 3 (createdAt is an ISO time of 24
\* characters), a property that is undefined left out
RECURSIVE EntriesLength(_)
EntriesLength(entries) ==
    IF entries = <<>> THEN 0
    ELSE (IF Head(entries).content = NoValue
          THEN 73 + Len(Head(entries).id)
          ELSE 94 + Len(Head(entries).id) + Len(Head(entries).content))
         + EntriesLength(Tail(entries))

\* the length of the value of one key: an array of entries (memories.json), a
\* config object (chat-configs.json) or a string (summaries.json)
ValueLength(f, v) ==
    IF f = "mem"
    THEN IF v = <<>> THEN 2 ELSE EntriesLength(v) + 2 * (Len(v) - 1) + 6
    ELSE IF f = "cfg"
    THEN LET key == IF v.apiKey = NoValue THEN 0 ELSE 16 + Len(v.apiKey)
             url == IF v.baseUrl = NoValue THEN 0 ELSE 17 + Len(v.baseUrl)
         IN  IF key + url = 0 THEN 2
             ELSE key + url + (IF key > 0 /\ url > 0 THEN 2 ELSE 0) + 6
    ELSE Len(v) + 2

RECURSIVE KeysLength(_, _, _)
KeysLength(f, map, keys) ==
    IF keys = {} THEN 0
    ELSE LET k == CHOOSE x \in keys : TRUE
         IN  Len(ToString(k)) + 6 + ValueLength(f, map[k])
             + KeysLength(f, map, keys \ {k})

\* the number of characters of JSON.stringify(obj, null, 2) for the Map
JsonLength(f, map) ==
    IF DOMAIN map = {} THEN 2
    ELSE KeysLength(f, map, DOMAIN map) + 2 * (Cardinality(DOMAIN map) - 1) + 4

\* the text writeFile is given for file f
FileText(f) ==
    [kind |-> "json", data |-> Stringify(StoreOf(f)).data,
     len |-> JsonLength(f, StoreOf(f))]

\* persist() is past access(): the text is made from the Map as it is now and
\* writeFile(DATA_FILE, text) is called; the file is not touched before the
\* code has returned to the event loop
WriteStart(w) ==
    /\ w \in writes
    /\ w.pc = "access"
    /\ writes' = (writes \ {w}) \cup
                     {[w EXCEPT !.pc = "called", !.data = FileText(w.file)]}
    /\ UNCHANGED disk

\* writeFile opens the file on the thread pool: it is created or truncated
WriteOpens(w) ==
    /\ w \in writes
    /\ w.pc = "called"
    /\ disk' = [disk EXCEPT ![w.file] = PartialFile]
    /\ writes' = (writes \ {w}) \cup {[w EXCEPT !.pc = "opened"]}

\* the file after a text is written from its start over what the file
\* holds: what lies beyond the length of the text stays, and no such mix parses
WrittenOver(text, file) ==
    IF text.len >= file.len THEN text
    ELSE [kind |-> "partial", data |-> EmptyMap, len |-> file.len]

\* the text of writeFile lands in the file, written from its start over what
\* the file holds by now: nothing, or what another call in flight has written
\* since this one opened it; the promise is still pending
WriteLands(w) ==
    /\ w \in writes
    /\ w.pc = "opened"
    /\ disk' = [disk EXCEPT ![w.file] = WrittenOver(w.data, disk[w.file])]
    /\ writes' = (writes \ {w}) \cup {[w EXCEPT !.pc = "written"]}

\* the file is closed and the promise of writeFile settles, a turn of the
\* event loop or more after its text landed: persist() and its caller go on
WriteDone(w) ==
    /\ w \in writes
    /\ w.pc = "written"
    /\ writes' = writes \ {w}
    /\ UNCHANGED disk

\* the process ends, with whatever writes are in flight, and starts again:
\* the three modules load their files on import
Restart ==
    /\ store' = LoadStore(disk.mem)
    /\ cfgStore' = LoadStore(disk.cfg)
    /\ summaries' = LoadStore(disk.sum)
    /\ counters' = EmptyMap
    /\ writes' = {}
    /\ diskLog' = [diskLog EXCEPT !.loads = @ + 1,
                                  !.raised = \/ LoadRaises(disk.mem)
                                             \/ LoadRaises(disk.cfg)
                                             \/ LoadRaises(disk.sum)]

----------------------------------------------------------------------------
(* Chat Log and Summarizer: src/src/chatLog.ts                              *)

MAX_BUFFER         == 50
RECENT_COUNT       == 20
SUMMARIZE_INTERVAL == 10

LogChats   == {1, 2}                  \* chats whose messages are logged
BusyChat   == 1                       \* the chat that logs up to MaxLogged messages
ChatTitleInputs == {NoValue, "Team"}  \* chatTitle?: string
\* the titles a chat's messages come with: the busy chat is private (no title)
TitlesOf(chatId) == IF chatId = BusyChat THEN {NoValue} ELSE ChatTitleInputs
SummaryTexts == {"summary", "", NoValue}   \* res.choices[0]?.message?.content

\* the n-th entry passed to logMessage for a chat: entries differ in their
\* timestamp, every second one is a photo
EntryAt(n) ==
    [sender |-> "Ann", timestamp |-> "t" \o ToString(n),
     type |-> IF n % 2 = 0 THEN "photo" ELSE "text", content |-> "m",
     replyTo |-> IF n % 5 = 0 THEN "Bob" ELSE NoValue]

\* formatLogEntry(entry)
formatLogEntry(entry) ==
    "[" \o entry.timestamp \o "] " \o entry.sender
    \o (IF Truthy(entry.replyTo) THEN " (replying to " \o entry.replyTo \o ")" ELSE "")
    \o ": "
    \o (IF entry.type # "text" THEN "[" \o entry.type \o "] " ELSE "")
    \o entry.content

\* logs.get(chatId), [] when absent
LogBuffer(chatId) == IF MapHas(logs, chatId) THEN logs[chatId] ELSE <<>>

\* map.get(chatId) ?? 0
CounterOf(map, chatId) == IF MapHas(map, chatId) THEN map[chatId] ELSE 0

\* counters.get(chatId) ?? 0
Counter(chatId) == CounterOf(counters, chatId)

\* a plausible slip: shift() once the buffer has reached MAX_BUFFER
CapBufferGeq(buf) == IF Len(buf) >= MAX_BUFFER THEN Tail(buf) ELSE buf

\* if (buf.length > MAX_BUFFER) buf.shift()
CapBuffer(buf) == IF Len(buf) > MAX_BUFFER THEN Tail(buf) ELSE buf

\* a plausible slip: > in place of >=
DueGt(count) == count > SUMMARIZE_INTERVAL

\* count >= SUMMARIZE_INTERVAL
Due(count) == count >= SUMMARIZE_INTERVAL

\* logMessage(chatId, entry, chatTitle): the value it returns
logMessage(chatId) == Due(Counter(chatId) + 1)

\* logMessage(chatId, entry, chatTitle): its effect
LogMessage(chatId, entry, chatTitle) ==
    /\ chatTitles' = IF Truthy(chatTitle) THEN MapSet(chatTitles, chatId, chatTitle)
                     ELSE chatTitles
    /\ logs' = MapSet(logs, chatId, CapBuffer(Push(LogBuffer(chatId), entry)))
    /\ counters' = MapSet(counters, chatId, Counter(chatId) + 1)
    /\ UNCHANGED <<summaries, sumTasks>>

\* a plausible slip: the cutoff taken from the front (the first RECENT_COUNT kept)
CutoffFront(n) == IF n < RECENT_COUNT THEN n ELSE RECENT_COUNT

\* Math.max(0, buf.length - RECENT_COUNT)
Cutoff(n) == IF n - RECENT_COUNT > 0 THEN n - RECENT_COUNT ELSE 0

\* getOlderEntries(chatId)
getOlderEntries(chatId) ==
    IF ~MapHas(logs, chatId) THEN <<>>
    ELSE SubSeq(logs[chatId], 1, Cutoff(Len(logs[chatId])))

\* a plausible slip: one entry more than the recent window is taken
SliceLastOneMore(buf, n) ==
    SubSeq(buf, (IF Len(buf) < n + 1 THEN 0 ELSE Len(buf) - (n + 1)) + 1, Len(buf))

\* buf.slice(-n): the last n elements, all of them when there are fewer
SliceLast(buf, n) ==
    SubSeq(buf, (IF Len(buf) < n THEN 0 ELSE Len(buf) - n) + 1, Len(buf))

\* entries.map(formatLogEntry).join("\n")
RECURSIVE JoinFormatted(_)
JoinFormatted(entries) ==
    IF entries = <<>> THEN ""
    ELSE IF Len(entries) = 1 THEN formatLogEntry(Head(entries))
    ELSE formatLogEntry(Head(entries)) \o "\n" \o JoinFormatted(Tail(entries))

\* getChatContext(chatId): undefined (present = FALSE) without a buffer or with
\* an empty one, else the title, the summary and the rendered recent window
getChatContext(chatId) ==
    IF ~MapHas(logs, chatId) \/ Len(logs[chatId]) = 0
    THEN [present |-> FALSE, chatTitle |-> NoValue, summary |-> NoValue,
          recentLog |-> NoValue]
    ELSE [present |-> TRUE,
          chatTitle |-> IF MapHas(chatTitles, chatId) THEN chatTitles[chatId]
                        ELSE "Unknown Chat",
          summary |-> IF MapHas(summaries, chatId) THEN summaries[chatId] ELSE "",
          recentLog |-> JoinFormatted(SliceLast(logs[chatId], RECENT_COUNT))]

\* a summarizeChat call in flight: waiting for askSkye ("ask") or, inside
\* setSummary, for persistSummaries ("persist")
SumTask(id, chatId, pc) == [id |-> id, chat |-> chatId, pc |-> pc]

\* summarizeChat(chatId) up to its first await: with nothing older than the
\* recent window the counter is reset and the call completes ("done"),
\* otherwise askSkye is called ("ask")
SummarizeStart(id, chatId) ==
    /\ UNCHANGED <<logs, summaries, chatTitles>>
    /\ IF Len(getOlderEntries(chatId)) = 0
       THEN /\ counters' = MapSet(counters, chatId, 0)
            /\ UNCHANGED sumTasks
       ELSE /\ sumTasks' = sumTasks \cup {SumTask(id, chatId, "ask")}
            /\ UNCHANGED counters

\* whether summarizeChat(chatId) completes without awaiting
SummarizeStartCompletes(chatId) == Len(getOlderEntries(chatId)) = 0

\* a plausible slip: the new text appended to the summary already stored
SummarizeAskResolvesAppends(t, text) ==
    /\ t \in sumTasks
    /\ t.pc = "ask"
    /\ UNCHANGED <<logs, chatTitles>>
    /\ IF Truthy(text)
       THEN /\ summaries' = MapSet(summaries, t.chat,
                                   IF MapHas(summaries, t.chat)
                                   THEN summaries[t.chat] \o "\n" \o text ELSE text)
            /\ counters' = MapSet(counters, t.chat, 0)
            /\ sumTasks' = (sumTasks \ {t}) \cup {[t EXCEPT !.pc = "persist"]}
       ELSE /\ sumTasks' = sumTasks \ {t}
            /\ UNCHANGED <<summaries, counters>>

\* askSkye resolves with a response whose first choice has content `text`
\* (NoValue: no choice, or no content): a truthy text enters setSummary, which
\* stores it and resets the counter before it awaits persistSummaries;
\* otherwise the call completes with nothing changed
SummarizeAskResolves(t, text) ==
    /\ t \in sumTasks
    /\ t.pc = "ask"
    /\ UNCHANGED <<logs, chatTitles>>
    /\ IF Truthy(text)
       THEN /\ summaries' = MapSet(summaries, t.chat, text)
            /\ counters' = MapSet(counters, t.chat, 0)
            /\ sumTasks' = (sumTasks \ {t}) \cup {[t EXCEPT !.pc = "persist"]}
       ELSE /\ sumTasks' = sumTasks \ {t}
            /\ UNCHANGED <<summaries, counters>>

\* askSkye rejects, or persistSummaries rejects inside setSummary: the catch
\* block resets the counter and the call completes
SummarizeCatch(t) ==
    /\ t \in sumTasks
    /\ counters' = MapSet(counters, t.chat, 0)
    /\ sumTasks' = sumTasks \ {t}
    /\ UNCHANGED <<logs, summaries, chatTitles>>

\* persistSummaries resolves: setSummary returns and the call completes
SummarizePersisted(t) ==
    /\ t \in sumTasks
    /\ t.pc = "persist"
    /\ sumTasks' = sumTasks \ {t}
    /\ UNCHANGED <<logs, counters, summaries, chatTitles>>

----------------------------------------------------------------------------
(* Chat-config store and config wizard: src/unnamed/part_003; credentials   *)
(* and configuration: src/unnamed/part_000, src/src/index.ts                *)

AllowedIds  == {1}                               \* ALLOWED_IDS
BaseUrl     == "https://openrouter.ai/api/v1"    \* BASE_URL
OpenAiKey   == "OPENAI_KEY"                      \* OPENAI_KEY, the global key
BotUsername == "skye_bot"                        \* ctx.me.username
OurCommands == {"image", "reset", "forget", "config"}

\* ctx.chat.type: the negative chat ids are groups
ChatType(chatId) == IF chatId < 0 THEN "group" ELSE "private"

NoConfig == [apiKey |-> NoValue, baseUrl |-> NoValue]

\* getChatConfig(chatId): store.get(chatId) ?? {}
getChatConfig(chatId) == IF MapHas(cfgStore, chatId) THEN cfgStore[chatId] ELSE NoConfig

\* setChatApiKey(chatId, apiKey), up to its await persist()
setChatApiKey(chatId, apiKey) ==
    cfgStore' = MapSet(cfgStore, chatId, [getChatConfig(chatId) EXCEPT !.apiKey = apiKey])

\* setChatBaseUrl(chatId, baseUrl), up to its await persist()
setChatBaseUrl(chatId, baseUrl) ==
    cfgStore' = MapSet(cfgStore, chatId, [getChatConfig(chatId) EXCEPT !.baseUrl = baseUrl])

\* a plausible slip: the record is kept when its last field goes
resetChatApiKeyKeepsRecord(chatId) ==
    IF ~MapHas(cfgStore, chatId) THEN cfgStore' = cfgStore
    ELSE cfgStore' = MapSet(cfgStore, chatId, [cfgStore[chatId] EXCEPT !.apiKey = NoValue])

\* resetChatApiKey(chatId), up to its await persist()
resetChatApiKey(chatId) ==
    IF ~MapHas(cfgStore, chatId) THEN cfgStore' = cfgStore
    ELSE LET cfg == [cfgStore[chatId] EXCEPT !.apiKey = NoValue]
         IN  IF ~Truthy(cfg.apiKey) /\ ~Truthy(cfg.baseUrl)
             THEN cfgStore' = MapDelete(cfgStore, chatId)
             ELSE cfgStore' = MapSet(cfgStore, chatId, cfg)

\* resetChatBaseUrl(chatId), up to its await persist()
resetChatBaseUrl(chatId) ==
    IF ~MapHas(cfgStore, chatId) THEN cfgStore' = cfgStore
    ELSE LET cfg == [cfgStore[chatId] EXCEPT !.baseUrl = NoValue]
         IN  IF ~Truthy(cfg.apiKey) /\ ~Truthy(cfg.baseUrl)
             THEN cfgStore' = MapDelete(cfgStore, chatId)
             ELSE cfgStore' = MapSet(cfgStore, chatId, cfg)

\* isInWizard(chatId)
isInWizard(chatId) == MapHas(wizardState, chatId)

\* a plausible slip: the allow-list is not consulted
getCredentialsNoAllowList(chatId) ==
    LET cfg == getChatConfig(chatId)
    IN  IF ~Truthy(cfg.apiKey) THEN NoConfig
        ELSE [apiKey |-> cfg.apiKey,
              baseUrl |-> IF cfg.baseUrl # NoValue THEN cfg.baseUrl ELSE BaseUrl]

\* getCredentials(chatId): NoConfig stands for `undefined` (use the global client)
getCredentials(chatId) ==
    IF chatId \in AllowedIds THEN NoConfig
    ELSE LET cfg == getChatConfig(chatId)
         IN  IF ~Truthy(cfg.apiKey) THEN NoConfig
             ELSE [apiKey |-> cfg.apiKey,
                   baseUrl |-> IF cfg.baseUrl # NoValue THEN cfg.baseUrl ELSE BaseUrl]

\* hasAccess(chatId)
hasAccess(chatId) ==
    \/ chatId \in AllowedIds
    \/ Truthy(getChatConfig(chatId).apiKey)

\* the key a backend call is made with: getClient(creds) / resolveCredentials(creds)
EffectiveKey(creds) == IF creds = NoConfig THEN OpenAiKey ELSE creds.apiKey

----------------------------------------------------------------------------
(* Inbound updates                                                          *)

TextInputs ==
    {"/config", "/reset", "/forget", "/image cat", "/image",
     "/image@other_bot cat", "hi @skye_bot", "sk-test-123"}

\* a text with blanks around it, as the wizard may be sent
PaddedKey == " sk-test-123 "

CaptionInputs == {"", "/image cat", "/image", "look @skye_bot", "/config"}

CallbackInputs ==
    {"cfg:set_key", "cfg:set_url", "cfg:reset_key", "cfg:reset_url", "cfg:close",
     "cfg:zzz", "other"}

\* text.match(/^\/(\w+)(?:@(\S+))?/): the command name [1], or NoValue without a match
CmdName(text) ==
    CASE text = "/config" -> "config"
      [] text = "/reset" -> "reset"
      [] text = "/forget" -> "forget"
      [] text \in {"/image cat", "/image", "/image@other_bot cat"} -> "image"
      [] OTHER -> NoValue

\* the same match: the bot the command is addressed to [2], or NoValue
CmdAt(text) == IF text = "/image@other_bot cat" THEN "other_bot" ELSE NoValue

\* ctx.match of a command handler, trimmed: the text after the command
CmdRest(text) == IF text \in {"/image cat", "/image@other_bot cat"} THEN "cat" ELSE ""

\* text.includes(`@${botUsername}`)
HasMention(text) == text \in {"hi @skye_bot", "look @skye_bot"}

\* captionRaw.match(IMAGE_CMD_RE): whether it matches
ImageCmdMatch(caption) == caption \in {"/image cat", "/image"}

\* data.startsWith("cfg:")
IsCfgData(data) == data # "other"

\* the text the access gate looks at: message text, else caption, else ""
UpdateText(u) == IF u.kind = "callback" THEN "" ELSE u.text

TextUpdate(chatId, threadId, text) ==
    [kind |-> "text", chat |-> chatId, thread |-> threadId, text |-> text, data |-> NoValue]

PhotoUpdate(chatId, threadId, caption) ==
    [kind |-> "photo", chat |-> chatId, thread |-> threadId, text |-> caption, data |-> NoValue]

CallbackUpdate(chatId, data) ==
    [kind |-> "callback", chat |-> chatId, thread |-> NoThread, text |-> NoValue, data |-> data]

NoUpdate == [kind |-> "none", chat |-> 0, thread |-> NoThread, text |-> NoValue, data |-> NoValue]

\* the threads a chat has: forum threads exist in groups only
ThreadsOf(chatId) == IF ChatType(chatId) = "group" THEN ThreadIds ELSE {NoThread}

Updates ==
    {TextUpdate(c, t, x) : <<c, t, x>> \in
        {<<c, t, x>> \in Chats \X ThreadIds \X TextInputs : t \in ThreadsOf(c)}}
    \cup {PhotoUpdate(c, t, x) : <<c, t, x>> \in
        {<<c, t, x>> \in Chats \X ThreadIds \X CaptionInputs : t \in ThreadsOf(c)}}
    \cup {CallbackUpdate(c, d) : <<c, d>> \in Chats \X CallbackInputs}

----------------------------------------------------------------------------
(* Access gate, handlers and background exchanges: src/src/index.ts         *)

SenderTag   == "[Ann] "          \* senderTag(ctx)
HistoryCap  == 15
ChatResults == {"", "sure", "**"}     \* texts chat() may return
ToolNames   == {"save_memory", "delete_memory", "search_web"}   \* tools a response may call

\* cleanMd(text): the markdown markers * _ ~ ` are removed
cleanMd(text) == IF text = "**" THEN "" ELSE text

\* a plausible slip: the oldest message leaves one message too late
storeMessageLate(mem, key, msg) ==
    LET list == IF MapHas(mem, key) THEN mem[key] ELSE <<>>
        more == Append(list, msg)
    IN  MapSet(mem, key, IF Len(more) > HistoryCap + 1 THEN Tail(more) ELSE more)

\* storeMessage(key, msg) applied to the map `memory`
storeMessage(mem, key, msg) ==
    LET list == IF MapHas(mem, key) THEN mem[key] ELSE <<>>
        more == Append(list, msg)
    IN  MapSet(mem, key, IF Len(more) > HistoryCap THEN Tail(more) ELSE more)

\* bot.command(name) matches: a command at the start of a text message that is
\* addressed to no bot or to this bot
IsCommand(u, name) ==
    /\ u.kind = "text"
    /\ CmdName(u.text) = name
    /\ CmdAt(u.text) \in {NoValue, BotUsername}

\* accessGate(ctx, next): "next", "drop" (return without a reply) or "deny"
\* (reply that an API key is needed, then return)
accessGate(u) ==
    LET text         == UpdateText(u)
        isGroup      == ChatType(u.chat) = "group"
        cmdMatch     == CmdName(text) # NoValue
        isOurCommand == /\ cmdMatch
                        /\ CmdName(text) \in OurCommands
                        /\ CmdAt(text) \in {NoValue, BotUsername}
        isDirected   == ~isGroup \/ HasMention(text) \/ isOurCommand
    IN  IF u.kind = "callback" /\ IsCfgData(u.data) THEN "next"
        ELSE IF isInWizard(u.chat) THEN "next"
        ELSE IF isGroup /\ cmdMatch /\ ~isOurCommand THEN "drop"
        ELSE IF isOurCommand /\ CmdName(text) = "config" THEN "next"
        ELSE IF ~hasAccess(u.chat) THEN (IF isDirected THEN "deny" ELSE "drop")
        ELSE "next"

\* the middleware chain in registration order: the config handlers, the access
\* gate, the commands, then the text and photo handlers
Route(u) ==
    IF IsCommand(u, "config") THEN "config"
    ELSE IF u.kind = "callback" /\ IsCfgData(u.data) THEN "cfg"
    ELSE IF accessGate(u) # "next" THEN accessGate(u)
    ELSE IF IsCommand(u, "reset") THEN "reset"
    ELSE IF IsCommand(u, "image") THEN "image"
    ELSE IF IsCommand(u, "forget") THEN "forget"
    ELSE IF u.kind = "text" THEN "text"
    ELSE IF u.kind = "photo" THEN "photo"
    ELSE "none"

NoMsg == Msg("none", TextContent(NoValue), <<>>, NoValue)

\* an exchange that runs on in the background after its handler returned
Task(u, kind, pc, userMsg, creds) ==
    [id |-> updates + 1, kind |-> kind, pc |-> pc, chat |-> u.chat,
     key |-> threadKey(u.chat, u.thread), userMsg |-> userMsg, creds |-> creds,
     prompt |-> u.text, access |-> hasAccess(u.chat), iter |-> 0, call |-> NoCall]

\* a request to the LLM backend made for task t: "chat" for a chat completion
\* of chat(), "image" for generateImage
LlmCall(t, api) ==
    [chat |-> t.chat, api |-> api, apiKey |-> EffectiveKey(t.creds), access |-> t.access]

Handled == updates' = updates + 1

\* bot.command("config"): the panel is sent, no state changes
OnConfigCommand(u) ==
    /\ Route(u) = "config"
    /\ Handled
    /\ UNCHANGED <<sideVars, clockVars, memVars, memHist, rateVars, rateHist, cfgStore,
                   wizardState, history, supportsImages, tasks, llmCalls>>

\* bot.on("callback_query:data") for the cfg: buttons; cfg:close and an unknown
\* cfg: action answer the query and change no state
OnCfgCallback(u) ==
    /\ Route(u) = "cfg"
    /\ Handled
    /\ CASE u.data = "cfg:set_key" ->
                /\ wizardState' = MapSet(wizardState, u.chat, "api_key")
                /\ UNCHANGED cfgStore
         [] u.data = "cfg:set_url" ->
                /\ wizardState' = MapSet(wizardState, u.chat, "base_url")
                /\ UNCHANGED cfgStore
         [] u.data = "cfg:reset_key" ->
                /\ resetChatApiKey(u.chat)
                /\ UNCHANGED wizardState
         [] u.data = "cfg:reset_url" ->
                /\ resetChatBaseUrl(u.chat)
                /\ UNCHANGED wizardState
         [] OTHER ->
                UNCHANGED <<cfgStore, wizardState>>
    /\ UNCHANGED <<sideVars, clockVars, memVars, memHist, rateVars, rateHist, history,
                   supportsImages, tasks, llmCalls>>

\* accessGate returns without calling next(): silently ("drop") or after the
\* reply that an API key is needed ("deny")
OnGateStop(u) ==
    /\ Route(u) \in {"deny", "drop"}
    /\ Handled
    /\ UNCHANGED <<sideVars, clockVars, memVars, memHist, rateVars, rateHist, cfgStore,
                   wizardState, history, supportsImages, tasks, llmCalls>>

\* an update that passes the gate and matches no handler
OnUnhandled(u) ==
    /\ Route(u) = "none"
    /\ Handled
    /\ UNCHANGED <<sideVars, clockVars, memVars, memHist, rateVars, rateHist, cfgStore,
                   wizardState, history, supportsImages, tasks, llmCalls>>

\* a plausible slip: memory.clear() in place of memory.delete(tk)
OnResetAll(u) ==
    /\ Route(u) = "reset"
    /\ Handled
    /\ history' = EmptyMap
    /\ UNCHANGED <<sideVars, clockVars, memVars, memHist, rateVars, rateHist, cfgStore,
                   wizardState, supportsImages, tasks, llmCalls>>

\* bot.command("reset")
OnReset(u) ==
    /\ Route(u) = "reset"
    /\ Handled
    /\ history' = MapDelete(history, threadKey(u.chat, u.thread))
    /\ UNCHANGED <<sideVars, clockVars, memVars, memHist, rateVars, rateHist, cfgStore,
                   wizardState, supportsImages, tasks, llmCalls>>

\* bot.command("forget")
OnForget(u, persistOk) ==
    /\ Route(u) = "forget"
    /\ Handled
    /\ ClearMemories(u.chat, persistOk)
    /\ UNCHANGED <<sideVars, clockVars, memHist, rateVars, rateHist, cfgStore, wizardState,
                   history, supportsImages, tasks, llmCalls>>

\* the handler asks canRespond and, when admitted, starts the background exchange t
Admit(u, t) ==
    /\ CanRespond(threadKey(u.chat, u.thread))
    /\ tasks' = IF canRespond(threadKey(u.chat, u.thread)) THEN tasks \cup {t} ELSE tasks

\* bot.command("image"), up to the start of its background body; without a
\* prompt only the usage hint is sent
OnImage(u) ==
    /\ Route(u) = "image"
    /\ Handled
    /\ IF CmdRest(u.text) = ""
       THEN UNCHANGED <<rateVars, tasks>>
       ELSE Admit(u, Task(u, "image", "action", NoMsg, getCredentials(u.chat)))
    /\ UNCHANGED <<sideVars, clockVars, memVars, memHist, rateHist, cfgStore, wizardState,
                   history, supportsImages, llmCalls>>

\* text.trim() on the texts of the model
Trim(text) == IF text = PaddedKey THEN "sk-test-123" ELSE text

\* handleWizardInput(ctx) when the chat has pending wizard state: the state is
\* deleted and the trimmed text, unless empty, becomes the new key or base URL
WizardConsumes(u) ==
    /\ wizardState' = MapDelete(wizardState, u.chat)
    /\ IF ~Truthy(Trim(u.text))
       THEN UNCHANGED cfgStore
       ELSE IF wizardState[u.chat] = "api_key"
       THEN setChatApiKey(u.chat, Trim(u.text))
       ELSE setChatBaseUrl(u.chat, Trim(u.text))

\* a plausible slip: the return after handleWizardInput left out, so a
\* consumed text goes on into the normal handling
OnTextFallsThrough(u) ==
    /\ Route(u) = "text"
    /\ Handled
    /\ UNCHANGED <<sideVars, clockVars, memVars, memHist, rateHist, history, supportsImages>>
    /\ IF isInWizard(u.chat) THEN WizardConsumes(u) ELSE UNCHANGED <<cfgStore, wizardState>>
    /\ IF ChatType(u.chat) # "private" /\ ~HasMention(u.text)
       THEN UNCHANGED <<rateVars, tasks, llmCalls>>
       ELSE LET t == Task(u, "text", "chat",
                          Msg("user", TextContent(SenderTag \o u.text), <<>>, NoValue),
                          getCredentials(u.chat))
            IN  /\ Admit(u, t)
                /\ llmCalls' = IF canRespond(threadKey(u.chat, u.thread))
                               THEN llmCalls \cup {LlmCall(t, "chat")}
                               ELSE llmCalls

\* bot.on("message:text"), up to the first await of its background body: the
\* first request of chat() is issued before the handler returns
OnText(u) ==
    /\ Route(u) = "text"
    /\ Handled
    /\ UNCHANGED <<sideVars, clockVars, memVars, memHist, rateHist, history, supportsImages>>
    /\ IF isInWizard(u.chat)
       THEN /\ WizardConsumes(u)
            /\ UNCHANGED <<rateVars, tasks, llmCalls>>
       ELSE /\ UNCHANGED <<cfgStore, wizardState>>
            /\ IF ChatType(u.chat) # "private" /\ ~HasMention(u.text)
               THEN UNCHANGED <<rateVars, tasks, llmCalls>>
               ELSE LET t == Task(u, "text", "chat",
                                  Msg("user", TextContent(SenderTag \o u.text), <<>>, NoValue),
                                  getCredentials(u.chat))
                    IN  /\ Admit(u, t)
                        /\ llmCalls' = IF canRespond(threadKey(u.chat, u.thread))
                                       THEN llmCalls \cup {LlmCall(t, "chat")}
                                       ELSE llmCalls

\* bot.on("message:photo"), up to the start of its background body
OnPhoto(u) ==
    /\ Route(u) = "photo"
    /\ Handled
    /\ UNCHANGED <<sideVars, clockVars, memVars, memHist, rateHist, cfgStore, wizardState,
                   history, supportsImages, llmCalls>>
    /\ IF ImageCmdMatch(u.text)
       THEN IF CmdRest(u.text) = ""
            THEN UNCHANGED <<rateVars, tasks>>
            ELSE Admit(u, Task(u, "edit", "action", NoMsg, getCredentials(u.chat)))
       ELSE IF ChatType(u.chat) # "private" /\ (u.text = "" \/ ~HasMention(u.text))
            THEN UNCHANGED <<rateVars, tasks>>
            ELSE IF supportsImages = "no"
            THEN UNCHANGED <<rateVars, tasks>>
            ELSE Admit(u, Task(u, "vision", "fetch", NoMsg, getCredentials(u.chat)))

\* the background body of a handler gets past sendChatAction (image, edit) or
\* past getFile and toDataUrl (edit, vision), and makes its backend request
TaskAwaitOk(t) ==
    /\ t \in tasks
    /\ t.pc \in {"action", "fetch"}
    /\ UNCHANGED <<sideVars, clockVars, memVars, memHist, rateVars, rateHist, cfgStore,
                   wizardState, history, supportsImages, updates>>
    /\ IF t.kind = "edit" /\ t.pc = "action"
       THEN /\ tasks' = (tasks \ {t}) \cup {[t EXCEPT !.pc = "fetch"]}
            /\ UNCHANGED llmCalls
       ELSE IF t.kind = "vision"
       THEN LET parts == PhotoParts(SenderTag, t.prompt, "data:image/jpeg;base64")
                t2    == [t EXCEPT !.pc = "chat",
                                   !.userMsg = Msg("user", PartsContent(parts), <<>>, NoValue)]
            IN  /\ tasks' = (tasks \ {t}) \cup {t2}
                /\ llmCalls' = llmCalls \cup {LlmCall(t, "chat")}
       ELSE /\ tasks' = (tasks \ {t}) \cup {[t EXCEPT !.pc = "gen"]}
            /\ llmCalls' = llmCalls \cup {LlmCall(t, "image")}

\* the exchange of task t ends with a last reply (an answer, a photo or an
\* apology) and no other change of state
TaskEnds(t) ==
    /\ tasks' = tasks \ {t}
    /\ UNCHANGED <<sideVars, clockVars, memVars, memHist, rateVars, rateHist, cfgStore,
                   wizardState, history, supportsImages, llmCalls, updates>>

\* sendChatAction, getFile or toDataUrl rejects: the catch block apologises
TaskAwaitFails(t) ==
    /\ t \in tasks
    /\ t.pc \in {"action", "fetch"}
    /\ TaskEnds(t)

\* generateImage settles with an image, with no image, or with an error: the
\* photo, a notice or an apology is sent
TaskImageDone(t) ==
    /\ t \in tasks
    /\ t.pc = "gen"
    /\ TaskEnds(t)

\* the tool call a response of the backend carries, by its name
TaskToolCall(tool) ==
    IF tool = "save_memory" THEN SaveBlue
    ELSE IF tool = "delete_memory" THEN DeleteK3
    ELSE OtherTool

\* the end of one pass of the loop of chat() inside the background exchange t:
\* the next request is issued or, past the cap, chat() returns "" and the
\* handler reports it
TaskLoopAgain(t) ==
    IF t.iter + 1 <= MaxIterations
    THEN /\ tasks' = (tasks \ {t}) \cup
                         {[t EXCEPT !.pc = "chat", !.iter = t.iter + 1, !.call = NoCall]}
         /\ llmCalls' = llmCalls \cup {LlmCall(t, "chat")}
    ELSE /\ tasks' = tasks \ {t}
         /\ UNCHANGED llmCalls

\* a response carrying a tool call arrives in a background exchange:
\* executeMemoryTool runs up to its await on file I/O, the store already
\* changed (pc "persist"), or, for a call that needs none, the pass ends at once
TaskChatRound(t, tool) ==
    /\ t \in tasks
    /\ t.pc = "chat"
    /\ LET r == ExecuteMemoryTool(t.chat, TaskToolCall(tool), "k3")
       IN  /\ store' = r.store
           /\ IF r.suspends
              THEN /\ tasks' = (tasks \ {t}) \cup
                                   {[t EXCEPT !.pc = "persist", !.call = r.call]}
                   /\ UNCHANGED <<llmCalls, memRet>>
              ELSE /\ TaskLoopAgain(t)
                   /\ memRet' = IF r.call.op = "none" THEN memRet
                                ELSE Returned(r.call, TRUE)
    /\ UNCHANGED <<sideVars, clockVars, memHist, rateVars, rateHist, cfgStore, wizardState,
                   history, supportsImages, updates>>

\* the persist() a background exchange is suspended in settles: the tool
\* message is pushed and the pass ends, or executeMemoryTool rejects, chat()
\* throws and the catch block of the body apologises
TaskToolSettles(t, persistOk) ==
    /\ t \in tasks
    /\ t.pc = "persist"
    /\ memRet' = Returned(t.call, persistOk)
    /\ IF persistOk
       THEN TaskLoopAgain(t)
       ELSE /\ tasks' = tasks \ {t}
            /\ UNCHANGED llmCalls
    /\ UNCHANGED <<sideVars, clockVars, store, memHist, rateVars, rateHist, cfgStore,
                   wizardState, history, supportsImages, updates>>

\* a plausible slip: the answer stored ahead of the user message
TaskChatReturnsReplyFirst(t, text) ==
    /\ t \in tasks
    /\ t.pc = "chat"
    /\ tasks' = tasks \ {t}
    /\ history' = IF cleanMd(text) = "" THEN history
                  ELSE storeMessage(storeMessage(history, t.key,
                           Msg("assistant", TextContent(cleanMd(text)), <<>>, NoValue)),
                           t.key, t.userMsg)
    /\ UNCHANGED <<sideVars, clockVars, memVars, memHist, rateVars, rateHist, cfgStore,
                   wizardState, supportsImages, llmCalls, updates>>

\* a plausible slip: the user message stored before the answer is looked at
TaskChatReturnsStoresFirst(t, text) ==
    /\ t \in tasks
    /\ t.pc = "chat"
    /\ tasks' = tasks \ {t}
    /\ history' = IF cleanMd(text) = "" THEN storeMessage(history, t.key, t.userMsg)
                  ELSE storeMessage(storeMessage(history, t.key, t.userMsg), t.key,
                           Msg("assistant", TextContent(cleanMd(text)), <<>>, NoValue))
    /\ UNCHANGED <<sideVars, clockVars, memVars, memHist, rateVars, rateHist, cfgStore,
                   wizardState, supportsImages, llmCalls, updates>>

\* chat() returns text: an empty answer is reported, any other is stored with
\* the user message in the rolling history and sent
TaskChatReturns(t, text) ==
    /\ t \in tasks
    /\ t.pc = "chat"
    /\ tasks' = tasks \ {t}
    /\ history' = IF cleanMd(text) = "" THEN history
                  ELSE storeMessage(storeMessage(history, t.key, t.userMsg), t.key,
                           Msg("assistant", TextContent(cleanMd(text)), <<>>, NoValue))
    /\ UNCHANGED <<sideVars, clockVars, memVars, memHist, rateVars, rateHist, cfgStore,
                   wizardState, supportsImages, llmCalls, updates>>

\* chat() throws (the backend call or a tool call failed): the catch block apologises
TaskChatThrows(t) ==
    /\ t \in tasks
    /\ t.pc = "chat"
    /\ TaskEnds(t)

\* the clock advances by d ms
TickBy(d) ==
    /\ ticks < MaxTicks
    /\ now' = now + d
    /\ ticks' = ticks + 1

Tick == \E d \in TickSteps : TickBy(d)

MemInit ==
    /\ store = EmptyMap
    /\ memLog = [c \in Chats |-> <<>>]
    /\ memRet = [op |-> "none", chatId |-> 0, id |-> NoValue, entry |-> NoEntry,
                 ret |-> NoValue, threw |-> FALSE]
    /\ memOps = 0

RateInit ==
    /\ lastCall = EmptyMap
    /\ rateLog = [th \in Chats \X ThreadIds |-> <<>>]
    /\ rateRet = [thread |-> <<0, NoThread>>, at |-> 0, ret |-> FALSE]
    /\ rateOps = 0

ChatInit ==
    /\ chPc = "idle"
    /\ chChat = 0
    /\ chMsgs = <<>>
    /\ chIter = 0
    /\ chPending = <<>>
    /\ chResult = NoValue
    /\ chErr = "none"
    /\ chReqs = <<>>
    /\ chResps = <<>>
    /\ chExec = <<>>
    /\ chTool = NoTool

BotInit ==
    /\ cfgStore = EmptyMap
    /\ wizardState = EmptyMap
    /\ history = EmptyMap
    /\ supportsImages \in ImageSupport
    /\ tasks = {}
    /\ llmCalls = {}
    /\ updates = 0

\* the maps of chatLog after import, with no summaries file on disk
LogInit ==
    /\ logs = EmptyMap
    /\ counters = EmptyMap
    /\ summaries = EmptyMap
    /\ chatTitles = EmptyMap
    /\ sumTasks = {}
    /\ logRet = [chat |-> 0, ret |-> FALSE]
    /\ logHist = [c \in LogChats |-> <<>>]
    /\ sinceReset = [c \in LogChats |-> 0]
    /\ sumDone = [chat |-> 0, started |-> 0, done |-> 0, outcome |-> "none",
                  text |-> NoValue, before |-> NoValue, failed |-> 0, steps |-> 0]

CtxInit ==
    /\ ctxIn = <<>>
    /\ ctxOut = <<>>
    /\ ctxOp = "none"

\* no update has been handled yet
WizInit ==
    lastUpdate = [u |-> NoUpdate, pending |-> FALSE, route |-> "none", escaped |-> FALSE,
                  admitted |-> FALSE]

\* no call has been made to the chat-config store yet
CfgInit == cfgOp = [op |-> "none", chat |-> 0]

\* no data file exists yet and nothing is being written
DiskInit ==
    /\ disk = [mem |-> NoFile, cfg |-> NoFile, sum |-> NoFile]
    /\ writes = {}
    /\ diskLog = [ops |-> 0, loads |-> 0, raised |-> FALSE]

\* no exchange has called chat() yet
TalkInit ==
    talk = [calls |-> 0, kind |-> "none", text |-> NoValue, replies |-> <<>>,
            escaped |-> FALSE, chunks |-> <<>>, atStart |-> <<>>, tools |-> <<>>]

Init ==
    /\ now = StartTime
    /\ ticks = 0
    /\ MemInit
    /\ RateInit
    /\ ChatInit
    /\ BotInit
    /\ LogInit
    /\ CtxInit
    /\ WizInit
    /\ CfgInit
    /\ DiskInit
    /\ TalkInit

\* the harness of the Memory Store: each call is recorded in memLog
Logged(call) ==
    /\ memLog' = [memLog EXCEPT ![memRet'.chatId] = Append(@, call)]
    /\ memOps' = memOps + 1

Others == <<sideVars, ghostVars, clockVars, rateVars, rateHist, chatVars, botVars>>

MemAdd ==
    \E c \in MemChats, t \in Contents, s \in IdSuffixes, ok \in BOOLEAN :
        /\ memOps < MaxMemOps
        /\ AddMemory(c, t, s, ok)
        /\ Logged([op |-> "add", id |-> memRet'.id, entry |-> memRet'.entry])
        /\ UNCHANGED Others

MemDelete ==
    \E c \in MemChats, id \in MemoryIds \cup {NoValue}, ok \in BOOLEAN :
        /\ memOps < MaxMemOps
        /\ DeleteMemory(c, id, ok)
        /\ Logged([op |-> "del", id |-> id, entry |-> NoEntry])
        /\ UNCHANGED Others

MemClear ==
    \E c \in MemChats, ok \in BOOLEAN :
        /\ memOps < MaxMemOps
        /\ ClearMemories(c, ok)
        /\ Logged([op |-> "clear", id |-> NoValue, entry |-> NoEntry])
        /\ UNCHANGED Others

NextMem == MemAdd \/ MemDelete \/ MemClear

SpecMem == Init /\ [][NextMem]_vars

\* the harness of the rate limiter: the admitted times are recorded per thread
RateCall ==
    \E c \in RateChats, t \in ThreadIds :
        /\ rateOps < MaxRateOps
        /\ CanRespond(threadKey(c, t))
        /\ rateOps' = rateOps + 1
        /\ rateRet' = [thread |-> <<c, t>>, at |-> now, ret |-> canRespond(threadKey(c, t))]
        /\ rateLog' = IF rateRet'.ret
                      THEN [rateLog EXCEPT ![<<c, t>>] = Append(@, now)]
                      ELSE rateLog
        /\ UNCHANGED <<sideVars, ghostVars, clockVars, memVars, memHist, chatVars, botVars>>

RateTick ==
    Tick /\ UNCHANGED <<sideVars, ghostVars, memVars, memHist, rateVars, rateHist, chatVars, botVars>>

NextRate == RateCall \/ RateTick

SpecRate == Init /\ [][NextRate]_vars

LoopFrame == <<sideVars, ghostVars, clockVars, memHist, rateVars, rateHist, botVars>>

LoopStart ==
    \E c \in MemChats :
        ChatStart(c, UserMessages) /\ UNCHANGED <<memVars, LoopFrame>>

LoopBackendFails == ChatBackendFails /\ UNCHANGED <<memVars, LoopFrame>>

LoopRespond ==
    \E resp \in Responses, s \in ChatSuffixes :
        ChatRespond(resp, s) /\ UNCHANGED LoopFrame

LoopTool ==
    \E s \in ChatSuffixes, ok \in BOOLEAN :
        ChatTool(s, ok) /\ UNCHANGED LoopFrame

NextChat == LoopStart \/ LoopBackendFails \/ LoopRespond \/ LoopTool

SpecChat == Init /\ [][NextChat]_vars

\* the harness of memory scope: the mutators of the Memory Store called for
\* either chat, as /memories and /forget and other exchanges do, while chat()
\* runs its tool calls for one chat after the other
ScopeResponses ==
    { Response(TRUE, "hi", FALSE, <<>>),
      Response(TRUE, NoValue, TRUE, <<SaveBlue>>),
      Response(TRUE, NoValue, TRUE, <<DeleteK3>>),
      Response(TRUE, NoValue, TRUE, <<OtherTool>>) }

ScopeFrame == <<sideVars, ghostVars, clockVars, rateVars, rateHist, botVars>>

ScopeStart ==
    /\ memOps < MaxMemOps
    /\ \E c \in MemChats : ChatStart(c, UserMessages)
    /\ memOps' = memOps + 1
    /\ UNCHANGED <<memVars, memLog, ScopeFrame>>

ScopeRespond ==
    /\ Len(chResps) < MaxScopeResponses
    /\ \E resp \in ScopeResponses, s \in ChatSuffixes : ChatRespond(resp, s)
    /\ UNCHANGED <<memHist, ScopeFrame>>

ScopeTool ==
    /\ \E s \in ChatSuffixes, ok \in BOOLEAN : ChatTool(s, ok)
    /\ UNCHANGED <<memHist, ScopeFrame>>

\* chat() has returned or thrown and the next call of it may start
ScopeAgain ==
    /\ chPc \in {"returned", "threw"}
    /\ chPc' = "idle"
    /\ UNCHANGED <<chChat, chMsgs, chIter, chPending, chResult, chErr, chReqs, chResps,
                   chExec, chTool, memVars, memHist, ScopeFrame>>

NextScope ==
    \/ MemAdd \/ MemDelete \/ MemClear
    \/ ScopeStart \/ ScopeRespond \/ ScopeTool \/ ScopeAgain

SpecScope == Init /\ [][NextScope]_vars

\* an inbound update can be taken: the bound on updates and on exchanges in flight
CanTake ==
    /\ updates < MaxUpdates
    /\ Cardinality(tasks) < MaxTasks

BotConfigCommand == CanTake /\ UNCHANGED <<ghostVars, chatVars>> /\ \E u \in Updates : OnConfigCommand(u)

BotCfgCallback == CanTake /\ UNCHANGED <<ghostVars, chatVars>> /\ \E u \in Updates : OnCfgCallback(u)

BotGateStop == CanTake /\ UNCHANGED <<ghostVars, chatVars>> /\ \E u \in Updates : OnGateStop(u)

BotUnhandled == CanTake /\ UNCHANGED <<ghostVars, chatVars>> /\ \E u \in Updates : OnUnhandled(u)

BotReset == CanTake /\ UNCHANGED <<ghostVars, chatVars>> /\ \E u \in Updates : OnReset(u)

BotForget == CanTake /\ UNCHANGED <<ghostVars, chatVars>> /\ \E u \in Updates, ok \in BOOLEAN : OnForget(u, ok)

BotImage == CanTake /\ UNCHANGED <<ghostVars, chatVars>> /\ \E u \in Updates : OnImage(u)

BotText == CanTake /\ UNCHANGED <<ghostVars, chatVars>> /\ \E u \in Updates : OnText(u)

BotPhoto == CanTake /\ UNCHANGED <<ghostVars, chatVars>> /\ \E u \in Updates : OnPhoto(u)

BotAwaitOk == UNCHANGED <<ghostVars, chatVars>> /\ \E t \in tasks : TaskAwaitOk(t)

BotAwaitFails == UNCHANGED <<ghostVars, chatVars>> /\ \E t \in tasks : TaskAwaitFails(t)

BotImageDone == UNCHANGED <<ghostVars, chatVars>> /\ \E t \in tasks : TaskImageDone(t)

BotChatRound ==
    \E t \in tasks, tool \in ToolNames :
        /\ t.iter < MaxToolRounds
        /\ TaskChatRound(t, tool)
        /\ UNCHANGED <<ghostVars, chatVars>>

BotToolSettles ==
    \E t \in tasks, ok \in BOOLEAN :
        /\ TaskToolSettles(t, ok)
        /\ UNCHANGED <<ghostVars, chatVars>>

BotChatReturns == UNCHANGED <<ghostVars, chatVars>> /\ \E t \in tasks, text \in ChatResults : TaskChatReturns(t, text)

BotChatThrows == UNCHANGED <<ghostVars, chatVars>> /\ \E t \in tasks : TaskChatThrows(t)

BotTick ==
    /\ ticks < MaxBotTicks
    /\ TickBy(CooldownMs)
    /\ UNCHANGED <<sideVars, ghostVars, memVars, memHist, rateVars, rateHist, chatVars, botVars>>

NextBot ==
    \/ BotConfigCommand \/ BotCfgCallback \/ BotGateStop \/ BotUnhandled
    \/ BotReset \/ BotForget \/ BotImage \/ BotText \/ BotPhoto
    \/ BotAwaitOk \/ BotAwaitFails \/ BotImageDone
    \/ BotChatRound \/ BotToolSettles \/ BotChatReturns \/ BotChatThrows
    \/ BotTick

SpecBot == Init /\ [][NextBot]_vars

MainVars == <<clockVars, memVars, memHist, rateVars, rateHist, chatVars, botVars, ghostVars>>

\* the bound on the logMessage calls of a chat
LogLimit(chatId) == IF chatId = BusyChat THEN MaxLogged ELSE MaxLoggedElsewhere

\* summaries.get(chatId), NoValue when absent
SummaryOf(chatId) == IF MapHas(summaries, chatId) THEN summaries[chatId] ELSE NoValue

\* a step of a summarizeChat call of chat c is recorded: what happened, the
\* text the backend gave, the summary stored before the step, and whether the
\* call has completed with it
Settled(c, completes, outcome, text) ==
    sumDone' = [sumDone EXCEPT !.chat = c,
                               !.done = IF completes THEN @ + 1 ELSE @,
                               !.outcome = outcome,
                               !.text = text,
                               !.before = SummaryOf(c),
                               !.failed = IF outcome = "ask_failed" THEN @ + 1 ELSE @,
                               !.steps = @ + 1]

\* the counter of chat c was set to zero, or left alone
Resets(c) == sinceReset' = IF Counter(c)' = 0 THEN [sinceReset EXCEPT ![c] = 0] ELSE sinceReset

LogCall ==
    \E c \in LogChats, title \in ChatTitleInputs :
        /\ title \in TitlesOf(c)
        /\ Len(logHist[c]) < LogLimit(c)
        /\ LogMessage(c, EntryAt(Len(logHist[c]) + 1), title)
        /\ logRet' = [chat |-> c, ret |-> logMessage(c)]
        /\ logHist' = [logHist EXCEPT ![c] = Append(@, EntryAt(Len(logHist[c]) + 1))]
        /\ sinceReset' = [sinceReset EXCEPT ![c] = @ + 1]
        /\ UNCHANGED <<sumDone, ctxVars, MainVars>>

SumStartWithin(max) ==
    \E c \in LogChats :
        /\ sumDone.started < max
        /\ SummarizeStart(sumDone.started + 1, c)
        /\ sumDone' = IF SummarizeStartCompletes(c)
                      THEN [sumDone EXCEPT !.chat = c, !.started = @ + 1, !.done = @ + 1,
                                           !.outcome = "nothing", !.text = NoValue,
                                           !.before = SummaryOf(c)]
                      ELSE [sumDone EXCEPT !.started = @ + 1]
        /\ Resets(c)
        /\ UNCHANGED <<logRet, logHist, ctxVars, MainVars>>

SumStart == SumStartWithin(MaxSummaries)

SumAskResolvesFrom(texts) ==
    \E t \in sumTasks, text \in texts :
        /\ SummarizeAskResolves(t, text)
        /\ IF Truthy(text) THEN Settled(t.chat, FALSE, "stored", text)
                            ELSE Settled(t.chat, TRUE, "empty", text)
        /\ Resets(t.chat)
        /\ UNCHANGED <<logRet, logHist, ctxVars, MainVars>>

SumAskResolves == SumAskResolvesFrom(SummaryTexts)

SumCatch ==
    \E t \in sumTasks :
        /\ SummarizeCatch(t)
        /\ Settled(t.chat, TRUE, IF t.pc = "ask" THEN "ask_failed" ELSE "persist_failed",
                   NoValue)
        /\ Resets(t.chat)
        /\ UNCHANGED <<logRet, logHist, ctxVars, MainVars>>

SumPersisted ==
    \E t \in sumTasks :
        /\ SummarizePersisted(t)
        /\ Settled(t.chat, TRUE, "persisted", NoValue)
        /\ UNCHANGED <<logRet, logHist, sinceReset, ctxVars, MainVars>>

NextLog == LogCall \/ SumStart \/ SumAskResolves \/ SumCatch \/ SumPersisted

SpecLog == Init /\ [][NextLog]_vars

\* the harness of repeated summaries: a chat logs just past the recent window
\* and summarizeChat runs several times, over a stored summary too
ResummaryTexts == SummaryTexts \cup {"newer"}

SumLog == Len(logHist[BusyChat]) < MaxSumLogged /\ LogCall

SumRestart == SumStartWithin(MaxResummaries)

SumAskAgain == SumAskResolvesFrom(ResummaryTexts)

NextSum == SumLog \/ SumRestart \/ SumAskAgain \/ SumCatch \/ SumPersisted

SpecSum == Init /\ [][NextSum]_vars

\* the harness of the context functions: a message sequence is drawn, the
\* capability check settles, then the functions are applied to the sequence
CtxFrame == <<clockVars, memVars, memHist, rateVars, rateHist, chatVars, logVars,
              logHistVars, cfgStore, wizardState, history, tasks, llmCalls, updates,
              ghostVars>>

IsPlain(messages) == \A i \in 1..Len(messages) : ~messages[i].content.isArray

CtxPush ==
    \E n \in 1..MaxCtxLen :
        /\ n = Len(ctxIn) + 1
        /\ ctxOp = "none"
        /\ n > MaxMixed => IsPlain(ctxIn)
        /\ \E msg \in MessageInputs(n) :
              /\ n > MaxMixed => msg = TextMsgAt(n)
              /\ ctxIn' = Append(ctxIn, msg)
        /\ UNCHANGED <<ctxOut, ctxOp, supportsImages, CtxFrame>>

CtxCapability ==
    \E found \in BOOLEAN, imageModality \in BOOLEAN :
        /\ ctxOp = "none"
        /\ supportsImages = "unknown"
        /\ supportsImages' = checkModelCapabilities(supportsImages, found, imageModality)
        /\ UNCHANGED <<ctxVars, CtxFrame>>

CtxBuild ==
    /\ ctxOp # "build"
    /\ ctxOut' = buildContext(ctxIn)
    /\ ctxOp' = "build"
    /\ UNCHANGED <<ctxIn, supportsImages, CtxFrame>>

CtxSanitize ==
    /\ ctxOp # "sanitize"
    /\ ctxOut' = sanitizeContext(ctxIn)
    /\ ctxOp' = "sanitize"
    /\ UNCHANGED <<ctxIn, supportsImages, CtxFrame>>

\* the text handler builds its request over ctxIn taken as the rolling history
CtxTextRequest ==
    /\ ctxOp # "text"
    /\ Len(ctxIn) <= HistoryCap
    /\ ctxOut' = RequestContext("text", ctxIn,
                                Msg("user", TextContent(SenderTag \o "hello"), <<>>, NoValue))
    /\ ctxOp' = "text"
    /\ UNCHANGED <<ctxIn, supportsImages, CtxFrame>>

\* the photo handler does the same, or makes no request at all (<<>>)
CtxPhotoRequest ==
    /\ ctxOp # "photo"
    /\ Len(ctxIn) <= HistoryCap
    /\ ctxOut' = IF VisionProceeds
                 THEN RequestContext("vision", ctxIn,
                          Msg("user",
                              PartsContent(PhotoParts(SenderTag, "",
                                                      "data:image/jpeg;base64")),
                              <<>>, NoValue))
                 ELSE <<>>
    /\ ctxOp' = "photo"
    /\ UNCHANGED <<ctxIn, supportsImages, CtxFrame>>

NextCtx ==
    \/ CtxPush \/ CtxCapability \/ CtxBuild \/ CtxSanitize
    \/ CtxTextRequest \/ CtxPhotoRequest

SpecCtx == Init /\ [][NextCtx]_vars

\* the harness of the config wizard: the handlers of the bot with every update
\* recorded as it is handled: whether its chat had pending wizard state, and
\* the handler the middleware chain gave it to
WizTexts == TextInputs \cup {PaddedKey}

WizUpdates ==
    Updates \cup {TextUpdate(c, t, x) : <<c, t, x>> \in
        {<<c, t, x>> \in Chats \X ThreadIds \X WizTexts : t \in ThreadsOf(c)}}

WizTake ==
    /\ updates < MaxWizUpdates
    /\ Cardinality(tasks) < MaxTasks

\* whether the handling of u calls a mutator of the chat-config store that gets
\* to its persist(): the wizard's setChatApiKey / setChatBaseUrl for a text that
\* is not blank, the reset buttons for a chat that has a record
StartsConfigWrite(u) ==
    \/ Route(u) = "text" /\ isInWizard(u.chat) /\ Truthy(Trim(u.text))
    \/ /\ Route(u) = "cfg"
       /\ u.data \in {"cfg:reset_key", "cfg:reset_url"}
       /\ MapHas(cfgStore, u.chat)

\* whether a rejection of that persist() goes unobserved: the mutators are
\* called without await and without .catch, so their promise is seen neither
\* by the handler nor by bot.catch
WriteEscapes(u, persistOk) == StartsConfigWrite(u) /\ ~persistOk

Noted(u) ==
    /\ \E persistOk \in BOOLEAN :
          lastUpdate' = [u |-> u, pending |-> isInWizard(u.chat), route |-> Route(u),
                         escaped |-> WriteEscapes(u, persistOk),
                         admitted |-> tasks' # tasks]
    /\ UNCHANGED <<cfgHist, diskVars, talkHist, chatVars>>

WizConfigCommand == WizTake /\ \E u \in WizUpdates : OnConfigCommand(u) /\ Noted(u)

WizCfgCallback == WizTake /\ \E u \in WizUpdates : OnCfgCallback(u) /\ Noted(u)

WizGateStop == WizTake /\ \E u \in WizUpdates : OnGateStop(u) /\ Noted(u)

WizUnhandled == WizTake /\ \E u \in WizUpdates : OnUnhandled(u) /\ Noted(u)

WizReset == WizTake /\ \E u \in WizUpdates : OnReset(u) /\ Noted(u)

WizForget == WizTake /\ \E u \in WizUpdates, ok \in BOOLEAN : OnForget(u, ok) /\ Noted(u)

WizImage == WizTake /\ \E u \in WizUpdates : OnImage(u) /\ Noted(u)

WizText == WizTake /\ \E u \in WizUpdates : OnText(u) /\ Noted(u)

WizPhoto == WizTake /\ \E u \in WizUpdates : OnPhoto(u) /\ Noted(u)

NextWiz ==
    \/ WizConfigCommand \/ WizCfgCallback \/ WizGateStop \/ WizUnhandled
    \/ WizReset \/ WizForget \/ WizImage \/ WizText \/ WizPhoto

SpecWiz == Init /\ [][NextWiz]_vars

\* the harness of the chat-config store: the four mutators are called with the
\* keys and base URLs a chat may send to the wizard
CfgKeys == {"sk-test-123", "sk-other"}
CfgUrls == {"https://example.test/v1"}

CfgFrame == <<clockVars, memVars, memHist, rateVars, rateHist, chatVars, sideVars,
              wizardState, history, supportsImages, tasks, llmCalls, updates, wizHist,
              diskVars, talkHist>>

Called(op, chatId) == cfgOp' = [op |-> op, chat |-> chatId]

CfgSetKey ==
    \E c \in Chats, key \in CfgKeys :
        setChatApiKey(c, key) /\ Called("set_key", c) /\ UNCHANGED CfgFrame

CfgSetUrl ==
    \E c \in Chats, url \in CfgUrls :
        setChatBaseUrl(c, url) /\ Called("set_url", c) /\ UNCHANGED CfgFrame

CfgResetKey ==
    \E c \in Chats : resetChatApiKey(c) /\ Called("reset_key", c) /\ UNCHANGED CfgFrame

CfgResetUrl ==
    \E c \in Chats : resetChatBaseUrl(c) /\ Called("reset_url", c) /\ UNCHANGED CfgFrame

NextCfg == CfgSetKey \/ CfgSetUrl \/ CfgResetKey \/ CfgResetUrl

SpecCfg == Init /\ [][NextCfg]_vars

\* the harness of the persisted stores: one change at a time is made to a
\* store and written out, and the process may end and start again at any point
DiskBusy(f) == \E w \in writes : w.file = f

Mutated == diskLog' = [diskLog EXCEPT !.ops = @ + 1]

DiskAddMemory ==
    \E c \in MemChats, t \in Contents, s \in IdSuffixes :
        /\ diskLog.ops < MaxDiskOps
        /\ ~DiskBusy("mem")
        /\ AddMemory(c, t, s, TRUE)
        /\ Persisting("mem", c)
        /\ Mutated
        /\ UNCHANGED <<disk, clockVars, memHist, rateVars, rateHist, chatVars, botVars,
                       sideVars, wizHist, cfgHist, talkHist>>

DiskSetSummary ==
    \E c \in LogChats :
        /\ diskLog.ops < MaxDiskOps
        /\ ~DiskBusy("sum")
        /\ summaries' = MapSet(summaries, c, "summary")
        /\ counters' = MapSet(counters, c, 0)
        /\ Persisting("sum", c)
        /\ Mutated
        /\ UNCHANGED <<disk, clockVars, memVars, memHist, rateVars, rateHist, chatVars,
                       botVars, logs, chatTitles, sumTasks, logHistVars, ctxVars,
                       wizHist, cfgHist, talkHist>>

DiskSetKey ==
    \E c \in MemChats :
        /\ diskLog.ops < MaxDiskOps
        /\ ~DiskBusy("cfg")
        /\ setChatApiKey(c, "sk-test-123")
        /\ Persisting("cfg", c)
        /\ Mutated
        /\ UNCHANGED <<disk, clockVars, memVars, memHist, rateVars, rateHist, chatVars,
                       wizardState, history, supportsImages, tasks, llmCalls, updates,
                       sideVars, wizHist, cfgHist, talkHist>>

DiskFrame == <<clockVars, memVars, memHist, rateVars, rateHist, chatVars, botVars,
               sideVars, wizHist, cfgHist, talkHist, diskLog>>

DiskWriteStart == \E w \in writes : WriteStart(w) /\ UNCHANGED DiskFrame

DiskWriteOpens == \E w \in writes : WriteOpens(w) /\ UNCHANGED DiskFrame

DiskWriteLands == \E w \in writes : WriteLands(w) /\ UNCHANGED DiskFrame

DiskWriteDone == \E w \in writes : WriteDone(w) /\ UNCHANGED DiskFrame

DiskRestart ==
    /\ diskLog.loads < MaxRestarts
    /\ Restart
    /\ UNCHANGED <<disk, memRet, clockVars, memHist, rateVars, rateHist, chatVars,
                   wizardState, history, supportsImages, tasks, llmCalls, updates,
                   logs, chatTitles, sumTasks, logHistVars, ctxVars, wizHist, cfgHist, talkHist>>

NextDisk ==
    \/ DiskAddMemory \/ DiskSetSummary \/ DiskSetKey
    \/ DiskWriteStart \/ DiskWriteOpens \/ DiskWriteLands \/ DiskWriteDone
    \/ DiskRestart

SpecDisk == Init /\ [][NextDisk]_vars

\* the harness of concurrent Memory Store calls: a call is made while the
\* persist() of earlier calls is still suspended, and the steps of two
\* writeFile calls on the one file (open, write, settle) interleave freely
RaceFrame == <<clockVars, memHist, rateVars, rateHist, chatVars, botVars, sideVars,
               wizHist, cfgHist, talkHist>>

RaceAdd ==
    \E c \in MemChats, s \in IdSuffixes :
        /\ diskLog.ops < MaxDiskOps
        /\ AddMemory(c, "blue", s, TRUE)
        /\ Persisting("mem", c)
        /\ Mutated
        /\ UNCHANGED <<disk, RaceFrame>>

\* deleteMemory persists only when it found the entry
RaceDelete ==
    \E c \in MemChats, s \in IdSuffixes :
        /\ diskLog.ops < MaxDiskOps
        /\ DeleteMemory(c, generateId(s), TRUE)
        /\ IF memRet'.ret = "true" THEN Persisting("mem", c) ELSE UNCHANGED writes
        /\ Mutated
        /\ UNCHANGED <<disk, RaceFrame>>

RaceClear ==
    \E c \in MemChats :
        /\ diskLog.ops < MaxDiskOps
        /\ ClearMemories(c, TRUE)
        /\ Persisting("mem", c)
        /\ Mutated
        /\ UNCHANGED <<disk, RaceFrame>>

RaceWriteStart == \E w \in writes : WriteStart(w) /\ UNCHANGED <<DiskFrame>>

RaceWriteOpens == \E w \in writes : WriteOpens(w) /\ UNCHANGED <<DiskFrame>>

RaceWriteLands == \E w \in writes : WriteLands(w) /\ UNCHANGED <<DiskFrame>>

RaceWriteDone == \E w \in writes : WriteDone(w) /\ UNCHANGED <<DiskFrame>>

NextRace ==
    \/ RaceAdd \/ RaceDelete \/ RaceClear
    \/ RaceWriteStart \/ RaceWriteOpens \/ RaceWriteLands \/ RaceWriteDone

SpecRace == Init /\ [][NextRace]_vars

----------------------------------------------------------------------------
(* Exchanges end to end: the text and photo handlers of src/src/index.ts    *)
(* with the chat() call their background bodies make                        *)

\* the notice an exchange body sends when chat() gave it no text
CouldNotReply(kind) ==
    IF kind = "vision"
    THEN "I couldn't generate a response for this image. Please try again."
    ELSE "I couldn't generate a response. Please try again."

\* the apology the catch block of an exchange body sends
SorryReply(kind) ==
    IF kind = "vision"
    THEN "Failed to process the image. Please try again or send text instead."
    ELSE "Something went wrong, please try again."

\* the ctx.reply calls an exchange body makes once chat() has returned text:
\* the notice or the answer and, when that reply rejects, the apology of the
\* catch block
ExchangeReplies(kind, text, replyOk) ==
    LET first == IF cleanMd(text) = "" THEN CouldNotReply(kind) ELSE cleanMd(text)
    IN  IF replyOk THEN <<first>> ELSE <<first, SorryReply(kind)>>

\* whether the promise of an exchange body rejects: its awaits all sit in the
\* try block, and the reply of the catch block carries .catch(() => {})
ExchangeRejects(replyOk, sorryOk) == FALSE

\* the snapshots onChunk receives while the stream of one response is read:
\* the "content" listener is added to the stream of every iteration of the
\* loop, and the stream emits "content" for the content the response carries
StreamedTo(resp) ==
    IF resp.choice /\ Truthy(resp.content)
    THEN <<[snapshot |-> resp.content, tools |-> HasToolCalls(resp)]>>
    ELSE <<>>

\* memory.get(tk) || []
HistoryOf(key) == IF MapHas(history, key) THEN history[key] ELSE <<>>

\* the context an exchange body hands to chat(): the text handler sanitizes
\* it, the photo handler does not
ContextOf(t) == RequestContext(t.kind, HistoryOf(t.key), t.userMsg)

TalkUpdates == {TextUpdate(1, NoThread, "hello"), PhotoUpdate(1, NoThread, "")}

TalkResponses ==
    { Response(TRUE, "hi", FALSE, <<>>),
      Response(TRUE, NoValue, FALSE, <<>>),
      Response(TRUE, NoValue, TRUE, <<SaveBlue>>),
      Response(TRUE, "one moment", TRUE, <<DeleteK3, SaveBlue>>) }

TalkFrame == <<wizHist, cfgHist, diskVars>>

\* the body of task t calls chat(); the call and the memories it starts from
\* are recorded
TalkCalls(t) ==
    /\ ChatStart(t.chat, ContextOf(t))
    /\ talk' = [talk EXCEPT !.calls = @ + 1, !.chunks = <<>>,
                            !.atStart = Append(@, getMemories(t.chat)),
                            !.tools = Append(@, <<>>)]

TalkIdle == chPc = "idle" /\ tasks = {} /\ talk.calls < MaxTalks /\ updates < MaxUpdates

TalkText ==
    /\ TalkIdle
    /\ \E u \in TalkUpdates :
        /\ OnText(u)
        /\ IF tasks' = {} THEN UNCHANGED <<chatVars, talkHist>>
           ELSE \E t \in tasks' : TalkCalls(t)
    /\ UNCHANGED TalkFrame

TalkPhoto ==
    /\ TalkIdle
    /\ \E u \in TalkUpdates : OnPhoto(u)
    /\ UNCHANGED <<chatVars, talkHist, TalkFrame>>

TalkFetched ==
    /\ \E t \in tasks :
        /\ TaskAwaitOk(t)
        /\ \E t2 \in tasks' : TalkCalls(t2)
    /\ UNCHANGED TalkFrame

TalkFetchFails ==
    /\ \E t \in tasks : TaskAwaitFails(t)
    /\ UNCHANGED <<chatVars, talkHist, TalkFrame>>

\* the calls among `calls` that executeMemoryTool was called for
Executed(calls, ids) ==
    SelectSeq(calls, LAMBDA c : \E i \in 1..Len(ids) : ids[i] = c.id)

TalkRespond ==
    /\ Len(chResps) < MaxResponses
    /\ \E resp \in TalkResponses, suffix \in ChatSuffixes :
        /\ ChatRespond(resp, suffix)
        /\ talk' = [talk EXCEPT !.chunks = @ \o StreamedTo(resp),
                                !.tools[talk.calls] = @ \o Executed(resp.calls, chExec')]
    /\ UNCHANGED <<clockVars, memHist, rateVars, rateHist, botVars, sideVars, TalkFrame>>

TalkBackendFails ==
    /\ ChatBackendFails
    /\ UNCHANGED <<clockVars, memVars, memHist, rateVars, rateHist, botVars, sideVars,
                   talkHist, TalkFrame>>

TalkTool ==
    /\ \E suffix \in ChatSuffixes : ChatTool(suffix, TRUE)
    /\ talk' = [talk EXCEPT !.tools[talk.calls] =
                    @ \o Executed(Tail(chPending),
                                  SubSeq(chExec', Len(chExec) + 1, Len(chExec')))]
    /\ UNCHANGED <<clockVars, memHist, rateVars, rateHist, botVars, sideVars, TalkFrame>>

\* chat() has returned or thrown: control is back in the exchange body
TalkBack == UNCHANGED <<chChat, chMsgs, chIter, chPending, chResult, chErr, chReqs,
                        chResps, chExec, chTool>>

TalkReturns ==
    /\ chPc = "returned"
    /\ chPc' = "idle"
    /\ TalkBack
    /\ \E t \in tasks, replyOk \in BOOLEAN, sorryOk \in BOOLEAN :
        /\ TaskChatReturns(t, chResult)
        /\ talk' = [talk EXCEPT !.kind = t.kind, !.text = chResult,
                                !.replies = ExchangeReplies(t.kind, chResult, replyOk),
                                !.escaped = ExchangeRejects(replyOk, sorryOk)]
    /\ UNCHANGED TalkFrame

TalkThrows ==
    /\ chPc = "threw"
    /\ chPc' = "idle"
    /\ TalkBack
    /\ \E t \in tasks, sorryOk \in BOOLEAN :
        /\ TaskChatThrows(t)
        /\ talk' = [talk EXCEPT !.kind = t.kind, !.text = NoValue,
                                !.replies = <<SorryReply(t.kind)>>,
                                !.escaped = ExchangeRejects(FALSE, sorryOk)]
    /\ UNCHANGED TalkFrame

\* the clock moves on between two exchanges of a chat
TalkTick ==
    /\ chPc = "idle"
    /\ tasks = {}
    /\ \E u \in TalkUpdates : ~canRespond(threadKey(u.chat, u.thread))
    /\ TickBy(CooldownMs)
    /\ UNCHANGED <<memVars, memHist, rateVars, rateHist, chatVars, botVars, sideVars,
                   ghostVars>>

NextTalk ==
    \/ TalkText \/ TalkPhoto \/ TalkFetched \/ TalkFetchFails
    \/ TalkRespond \/ TalkBackendFails \/ TalkTool
    \/ TalkReturns \/ TalkThrows \/ TalkTick

SpecTalk == Init /\ [][NextTalk]_vars

\* the harness of a memory recalled over several exchanges of one chat: text
\* exchanges follow one another, the model saving or deleting a memory in
\* any of them, and the chat may send /forget between two exchanges
RecallResponses ==
    { Response(TRUE, "hi", FALSE, <<>>),
      Response(TRUE, NoValue, TRUE, <<SaveBlue>>),
      Response(TRUE, NoValue, TRUE, <<DeleteK3>>) }

RecallIdle == chPc = "idle" /\ tasks = {} /\ talk.calls < MaxRecalls

RecallText ==
    /\ RecallIdle
    /\ canRespond(threadKey(1, NoThread))
    /\ OnText(TextUpdate(1, NoThread, "hello"))
    /\ \E t \in tasks' : TalkCalls(t)
    /\ UNCHANGED TalkFrame

RecallForget ==
    /\ RecallIdle
    /\ talk.calls > 0
    /\ store # EmptyMap
    /\ OnForget(TextUpdate(1, NoThread, "/forget"), TRUE)
    /\ UNCHANGED <<chatVars, talkHist, TalkFrame>>

RecallRespond ==
    /\ Len(chResps) < MaxRecallResponses
    /\ \E resp \in RecallResponses, suffix \in ChatSuffixes :
        /\ ChatRespond(resp, suffix)
        /\ talk' = [talk EXCEPT !.tools[talk.calls] = @ \o Executed(resp.calls, chExec')]
    /\ UNCHANGED <<clockVars, memHist, rateVars, rateHist, botVars, sideVars, TalkFrame>>

RecallReturns ==
    /\ chPc = "returned"
    /\ chPc' = "idle"
    /\ TalkBack
    /\ \E t \in tasks : TaskChatReturns(t, chResult)
    /\ UNCHANGED <<talkHist, TalkFrame>>

RecallTick ==
    /\ RecallIdle
    /\ ~canRespond(threadKey(1, NoThread))
    /\ TickBy(CooldownMs)
    /\ UNCHANGED <<memVars, memHist, rateVars, rateHist, chatVars, botVars, sideVars,
                   ghostVars>>

NextRecall ==
    \/ RecallText \/ RecallForget \/ RecallRespond \/ TalkTool
    \/ RecallReturns \/ RecallTick

SpecRecall == Init /\ [][NextRecall]_vars

----------------------------------------------------------------------------
(* Threads side by side: the handlers of src/src/index.ts for two chats,    *)
(* each update recorded, one exchange at a time                             *)

ThreadUpdates ==
    { TextUpdate(1, NoThread, "hi @skye_bot"),
      TextUpdate(1, NoThread, "/reset"),
      TextUpdate(1, NoThread, "/forget"),
      CallbackUpdate(2, "cfg:set_key"),
      TextUpdate(2, NoThread, "sk-test-123"),
      TextUpdate(2, NoThread, "/reset") }

ThreadTake == updates < MaxThreadUpdates /\ tasks = {}

ThreadBack == UNCHANGED <<ghostVars, chatVars>>

ThreadCfgCallback == ThreadTake /\ \E u \in ThreadUpdates : OnCfgCallback(u) /\ Noted(u)

ThreadText == ThreadTake /\ \E u \in ThreadUpdates : OnText(u) /\ Noted(u)

ThreadReset == ThreadTake /\ \E u \in ThreadUpdates : OnReset(u) /\ Noted(u)

ThreadForget ==
    ThreadTake /\ \E u \in ThreadUpdates, ok \in BOOLEAN : OnForget(u, ok) /\ Noted(u)

\* the model saves a memory during the exchange, once
ThreadRound ==
    /\ \E t \in tasks : t.iter < 1 /\ TaskChatRound(t, "save_memory")
    /\ ThreadBack

ThreadSettles ==
    /\ \E t \in tasks, ok \in BOOLEAN : TaskToolSettles(t, ok)
    /\ ThreadBack

ThreadReturns ==
    /\ \E t \in tasks, text \in {"sure", ""} : TaskChatReturns(t, text)
    /\ ThreadBack

ThreadThrows ==
    /\ \E t \in tasks : TaskChatThrows(t)
    /\ ThreadBack

\* the clock moves on once a thread is inside its cooldown
ThreadTick ==
    /\ tasks = {}
    /\ \E k \in DOMAIN lastCall : TooSoon(now, lastCall[k])
    /\ Tick
    /\ UNCHANGED <<memVars, memHist, rateVars, rateHist, botVars, sideVars>>
    /\ ThreadBack

NextThread ==
    \/ ThreadCfgCallback \/ ThreadText \/ ThreadReset \/ ThreadForget
    \/ ThreadRound \/ ThreadSettles \/ ThreadReturns \/ ThreadThrows \/ ThreadTick

SpecThread == Init /\ [][NextThread]_vars

----------------------------------------------------------------------------
(* One thread over many exchanges: the text, photo and /reset handlers of   *)
(* src/src/index.ts on one private thread, exchanges overlapping            *)

HistUpdates ==
    { TextUpdate(1, NoThread, "hello"),
      PhotoUpdate(1, NoThread, ""),
      TextUpdate(1, NoThread, "/reset") }

\* the answer the backend gives to a user message: one to a text, one to a photo
HistReplyTo(msg) ==
    IF msg.content.isArray THEN "nice photo" ELSE "hi there"

HistTake == updates < MaxHistUpdates /\ Cardinality(tasks) < MaxTasks

HistBack == UNCHANGED <<ghostVars, chatVars>>

HistText == HistTake /\ HistBack /\ \E u \in HistUpdates : OnText(u)

HistPhoto == HistTake /\ HistBack /\ \E u \in HistUpdates : OnPhoto(u)

HistReset == HistTake /\ HistBack /\ \E u \in HistUpdates : OnReset(u)

HistFetched == HistBack /\ \E t \in tasks : TaskAwaitOk(t)

HistReturns ==
    /\ \E t \in tasks : t.pc = "chat" /\ TaskChatReturns(t, HistReplyTo(t.userMsg))
    /\ HistBack

\* chat() returns no text, or throws
HistFails ==
    /\ \E t \in tasks : TaskChatReturns(t, "") \/ TaskChatThrows(t)
    /\ HistBack

\* the cooldown of the thread passes
HistTick ==
    /\ \E k \in DOMAIN lastCall : TooSoon(now, lastCall[k])
    /\ now' = now + CooldownMs
    /\ UNCHANGED <<ticks, memVars, memHist, rateVars, rateHist, botVars, sideVars>>
    /\ HistBack

NextHist ==
    \/ HistText \/ HistPhoto \/ HistReset \/ HistFetched
    \/ HistReturns \/ HistFails \/ HistTick

SpecHist == Init /\ [][NextHist]_vars

----------------------------------------------------------------------------
(* Memory Store properties                                                  *)

HasId(entries, id) == \E i \in 1..Len(entries) : entries[i].id = id

\* the list that a history of calls leaves: add appends, a delete removes the
\* earliest surviving entry that carries the id, clear removes all
RECURSIVE Surviving(_)
Surviving(log) ==
    IF log = <<>> THEN <<>>
    ELSE LET before == Surviving(SubSeq(log, 1, Len(log) - 1))
             call   == log[Len(log)]
         IN  CASE call.op = "add" -> before \o <<call.entry>>
               [] call.op = "del" ->
                    IF HasId(before, call.id)
                    THEN LET k == CHOOSE i \in 1..Len(before) :
                                     /\ before[i].id = call.id
                                     /\ \A j \in 1..(i - 1) : before[j].id # call.id
                         IN  [i \in 1..(Len(before) - 1) |->
                                 IF i < k THEN before[i] ELSE before[i + 1]]
                    ELSE before
               [] OTHER -> <<>>

\* C2: after any sequence of addMemory / deleteMemory calls on a chat,
\* getMemories(chatId) is exactly the entries added and not yet deleted, in the
\* order in which they were added.
C2_ListIsSurvivingInOrder ==
    \A c \in Chats : getMemories(c) = Surviving(memLog[c])

\* C2 witness: two entries with different ids were added to a chat, the first
\* was deleted, and the second is what getMemories lists.
C2_Witness ==
    \E c \in Chats :
        /\ Len(memLog[c]) = 3
        /\ memLog[c][1].op = "add" /\ memLog[c][2].op = "add"
        /\ memLog[c][1].entry.id # memLog[c][2].entry.id
        /\ memLog[c][3].op = "del" /\ memLog[c][3].id = memLog[c][1].entry.id
        /\ getMemories(c) = <<memLog[c][2].entry>>

\* C3: deleteMemory(chatId, id) with an id that no entry of the chat carries
\* returns false, does not throw, and leaves the store of every chat unchanged.
C3_DeleteMissingIsNoOp ==
    [][ ( /\ memOps' = memOps + 1
          /\ memRet'.op = "del"
          /\ ~HasId(getMemories(memRet'.chatId), memRet'.id) )
        => ( /\ memRet'.ret = "false"
             /\ ~memRet'.threw
             /\ store' = store ) ]_vars

\* C3 witness: a delete of an id that a non-empty chat does not hold has
\* returned false.
C3_Witness ==
    /\ memRet.op = "del"
    /\ memRet.ret = "false"
    /\ getMemories(memRet.chatId) # <<>>
    /\ ~HasId(getMemories(memRet.chatId), memRet.id)

\* C4: in every reachable state no two entries of one chat's list have the same id.
C4_IdsUniquePerChat ==
    \A c \in Chats :
        \A i, j \in 1..Len(getMemories(c)) :
            i # j => getMemories(c)[i].id # getMemories(c)[j].id

----------------------------------------------------------------------------
(* Rate limiter properties                                                  *)

LastAdmitted(th) == rateLog[th][Len(rateLog[th])]

\* C9: canRespond admits the first call on a key, denies a call made less than
\* 2000 ms after the last admitted call on that key, and admits a call made
\* 2000 ms or more after it.
C9_AdmitDenyAtCooldown ==
    [][ rateOps' = rateOps + 1 =>
          LET th == rateRet'.thread
          IN  rateRet'.ret =
                 ( \/ rateLog[th] = <<>>
                   \/ now - LastAdmitted(th) >= 2000 ) ]_vars

\* C9 witness: a call was admitted exactly 2000 ms after the previous admitted
\* call on its key.
C9_Witness ==
    /\ rateRet.ret
    /\ Len(rateLog[rateRet.thread]) >= 2
    /\ LET l == rateLog[rateRet.thread]
       IN  l[Len(l)] - l[Len(l) - 1] = 2000

\* C10: with a non-decreasing clock, two admitted calls on one thread key are at
\* least 2000 ms apart, and a call on one key changes nothing for another key.
C10_AdmissionsApartAndPerKey ==
    /\ [] ( \A th \in DOMAIN rateLog :
              \A i, j \in 1..Len(rateLog[th]) :
                  i < j => rateLog[th][j] - rateLog[th][i] >= 2000 )
    /\ [][ rateOps' = rateOps + 1 =>
             \A th \in DOMAIN rateLog :
                 th # rateRet'.thread =>
                     LET k == threadKey(th[1], th[2])
                     IN  /\ MapHas(lastCall', k) = MapHas(lastCall, k)
                         /\ MapHas(lastCall, k) => lastCall'[k] = lastCall[k] ]_vars

\* C10 witness: two threads of one chat were each admitted, less than 2000 ms
\* apart from each other, and one of them was admitted twice.
C10_Witness ==
    \E c \in Chats, t1, t2 \in ThreadIds :
        /\ t1 # t2
        /\ Len(rateLog[<<c, t1>>]) >= 2
        /\ Len(rateLog[<<c, t2>>]) >= 1
        /\ rateLog[<<c, t2>>][1] - rateLog[<<c, t1>>][1] < 2000
        /\ rateLog[<<c, t1>>][1] - rateLog[<<c, t2>>][1] < 2000

----------------------------------------------------------------------------
(* Tool-calling loop properties                                             *)

Ended == chPc \in {"returned", "threw"}

\* a response that carries one or more tool invocations
CarriesInvocations(resp) == resp.choice /\ resp.hasCalls /\ resp.calls # <<>>

IsPrefix(a, b) == Len(a) <= Len(b) /\ SubSeq(b, 1, Len(a)) = a

\* C5: against a backend that returns tool calls on every response, chat()
\* ends after exactly 6 requests (the first and 5 more) by returning "".
C5_SixRequestsThenEmpty ==
    ( /\ Ended
      /\ chErr # "backend"
      /\ \A i \in 1..Len(chResps) : CarriesInvocations(chResps[i]) )
    => ( /\ chPc = "returned"
         /\ Len(chReqs) = 6
         /\ chResult = "" )

\* C6: once chat() is past the tool calls of a response, every invocation of
\* that response has been executed and the transcript ends with the assistant
\* message followed by exactly one tool result per invocation, in order; and
\* every request has the transcript of the request before it as a prefix.
C6_EveryInvocationAnswered ==
    /\ \A i \in 1..(Len(chReqs) - 1) : IsPrefix(chReqs[i], chReqs[i + 1])
    /\ ( /\ chPc # "tools"
         /\ chResps # <<>>
         /\ CarriesInvocations(chResps[Len(chResps)]) )
       => LET calls == chResps[Len(chResps)].calls
              n     == Len(calls)
              at    == Len(chMsgs) - n
          IN  /\ at >= 1
              /\ chMsgs[at].role = "assistant"
              /\ chMsgs[at].tool_calls = calls
              /\ \A i \in 1..n :
                    /\ chMsgs[at + i].role = "tool"
                    /\ chMsgs[at + i].tool_call_id = calls[i].id
              /\ chExec = [i \in 1..n |-> calls[i].id]

\* C7: an error raised while a tool call is executed is never thrown out of
\* chat(): chat() throws only when the backend call itself fails.
C7_ToolErrorsNeverThrown ==
    chPc = "threw" => chErr = "backend"

\* C8: a response without tool invocations makes chat() return that response's
\* text (or "" when it has none) at once: no further request is issued and the
\* Memory Store is not touched.
C8_FinalResponseReturnsText ==
    [][ /\ ( /\ Len(chResps') = Len(chResps) + 1
             /\ ~CarriesInvocations(chResps'[Len(chResps')]) )
           => LET resp == chResps'[Len(chResps')]
              IN  /\ chPc' = "returned"
                  /\ chResult' = IF resp.choice /\ resp.content # NoValue
                                 THEN resp.content ELSE ""
                  /\ chReqs' = chReqs
                  /\ store' = store
                  /\ memRet' = memRet
        /\ chPc = "returned" => UNCHANGED <<chPc, chResult, chReqs, store>> ]_vars

\* C8 witness: after a round of tool calls that saved a memory, a response
\* without tool invocations made chat() return its text.
C8_Witness ==
    /\ chPc = "returned"
    /\ Len(chResps) = 2
    /\ CarriesInvocations(chResps[1])
    /\ ~CarriesInvocations(chResps[2])
    /\ chResult = "hi"
    /\ Len(chReqs) = 2
    /\ getMemories(chChat) # <<>>

----------------------------------------------------------------------------
(* Access properties                                                        *)

\* C1: a chat that is not allow-listed and has no chat-local API key never
\* causes a request to the LLM backend: every request is made for an update
\* of a chat that had access when the update arrived.
C1_NoBackendCallWithoutAccess ==
    \A call \in llmCalls : call.access

----------------------------------------------------------------------------
(* Chat Log and Summarizer properties                                       *)

\* C11: every completed call of summarizeChat(chatId) leaves the chat's
\* messages-since-last-summary counter at zero, whatever the backend did.
C11_SummarizeLeavesCounterZero ==
    [][ sumDone'.done = sumDone.done + 1 => CounterOf(counters', sumDone'.chat) = 0 ]_vars

\* the first n elements of a sequence
FirstN(seq, n) == [i \in 1..n |-> seq[i]]

\* the last n elements of a sequence
LastN(seq, n) == [i \in 1..n |-> seq[Len(seq) - n + i]]

Min(a, b) == IF a < b THEN a ELSE b

Max(a, b) == IF a > b THEN a ELSE b

\* C12: getOlderEntries(chatId) is the buffer without its last 20 entries, in
\* order: the first max(0, n - 20) of the n buffered entries, none for an
\* unknown chat.
C12_OlderIsAllButLastTwenty ==
    \A c \in LogChats \cup {3} :
        getOlderEntries(c) = FirstN(LogBuffer(c), Max(0, Len(LogBuffer(c)) - 20))

\* C12 witness: with 25 buffered entries exactly the first 5 are returned.
C12_Witness ==
    /\ Len(LogBuffer(BusyChat)) = 25
    /\ Len(getOlderEntries(BusyChat)) = 5
    /\ getOlderEntries(BusyChat)[5] = EntryAt(5)

\* C13: each chat's buffer holds at most 50 entries and is the most recent
\* min(n, 50) of the n entries logged for the chat, in arrival order.
C13_BufferIsLastFifty ==
    \A c \in LogChats :
        /\ Len(LogBuffer(c)) <= 50
        /\ LogBuffer(c) = LastN(logHist[c], Min(Len(logHist[c]), 50))

\* C13 witness: 52 entries were logged, the buffer holds the 3rd to the 52nd.
C13_Witness ==
    /\ Len(logHist[BusyChat]) = 52
    /\ Len(LogBuffer(BusyChat)) = 50
    /\ LogBuffer(BusyChat)[1] = EntryAt(3)
    /\ LogBuffer(BusyChat)[50] = EntryAt(52)

\* C14: logMessage returns true exactly when the messages logged for the chat
\* since its counter was last reset, the current one included, number 10 or
\* more; the counter goes up by exactly one per logMessage and otherwise only
\* ever drops to zero.
C14_DueIffTenSinceReset ==
    [][ /\ Len(logHist[BusyChat]') + Len(logHist[2]') > Len(logHist[BusyChat]) + Len(logHist[2])
           => /\ logRet'.ret = (sinceReset'[logRet'.chat] >= 10)
              /\ CounterOf(counters', logRet'.chat) = Counter(logRet'.chat) + 1
        /\ \A c \in LogChats :
              \/ Counter(c)' = Counter(c)
              \/ Counter(c)' = Counter(c) + 1 /\ Len(logHist[c]') = Len(logHist[c]) + 1
              \/ Counter(c)' = 0 ]_vars

\* C14 witness: after a reset, the tenth message since made logMessage
\* return true, on a chat that had logged more than ten messages before.
C14_Witness ==
    /\ logRet.ret
    /\ sinceReset[logRet.chat] = 10
    /\ Len(logHist[logRet.chat]) > 20

----------------------------------------------------------------------------
(* Context assembly properties                                              *)

\* C15: buildContext returns at most 20 messages, and exactly the last
\* min(20, n) messages of its n-message input, in their original order
C15_ContextIsLastTwenty ==
    ctxOp = "build" =>
        /\ Len(ctxOut) <= 20
        /\ ctxOut = LastN(ctxIn, Min(20, Len(ctxIn)))

\* buildContext was given 22 messages and returned the 3rd to the 22nd
C15_Witness ==
    /\ ctxOp = "build"
    /\ Len(ctxIn) = 22
    /\ Len(ctxOut) = 20
    /\ ctxOut[1] = TextMsgAt(3)
    /\ ctxOut[20] = TextMsgAt(22)

HasImage(msg) ==
    /\ msg.content.isArray
    /\ \E i \in 1..Len(msg.content.parts) : msg.content.parts[i].type = "image_url"

TextsOf(msg) ==
    {msg.content.parts[i].text :
        i \in {j \in 1..Len(msg.content.parts) : msg.content.parts[j].type = "text"}}

\* C16: sanitizeContext is idempotent: whatever the capability state, applying
\* it to its own result gives that result again, also for a sequence that ends
\* with a multi-part message of any shape
C16_SanitizeIdempotent ==
    /\ ctxOp = "sanitize" => sanitizeContext(ctxOut) = ctxOut
    /\ \A capability \in {"yes", "no", "unknown"} :
          /\ sanitizeFor(capability, sanitizeFor(capability, ctxIn))
                 = sanitizeFor(capability, ctxIn)
          /\ ctxOp = "sanitize" =>
                \A parts \in PartsInputs :
                    LET messages ==
                            ctxIn \o <<Msg("user", PartsContent(parts), <<>>, NoValue)>>
                    IN  sanitizeFor(capability, sanitizeFor(capability, messages))
                            = sanitizeFor(capability, messages)

\* a sequence with an image message was sanitized for a model known not to
\* support images: the result differs from the input and is a fixed point
C16_Witness ==
    /\ ctxOp = "sanitize"
    /\ supportsImages = "no"
    /\ \E i \in 1..Len(ctxIn) : HasImage(ctxIn[i])
    /\ ctxOut # ctxIn
    /\ sanitizeContext(ctxOut) = ctxOut

\* C17: for a model known not to support images, every multi-part message
\* with an image part comes out with a single text as its content: the text
\* of the message, or "[image]" when it has no text part; for any other
\* capability state the sequence comes out unchanged. The sequences are those
\* a rolling history can hold: plain messages and the photo handler's
C17_ImagesBecomeSingleText ==
    ctxOp = "sanitize" =>
        IF supportsImages = "no"
        THEN /\ Len(ctxOut) = Len(ctxIn)
             /\ \A i \in 1..Len(ctxIn) :
                   HasImage(ctxIn[i]) =>
                       /\ ~ctxOut[i].content.isArray
                       /\ IF TextsOf(ctxIn[i]) = {}
                          THEN ctxOut[i].content.text = "[image]"
                          ELSE ctxOut[i].content.text \in TextsOf(ctxIn[i])
        ELSE ctxOut = ctxIn

\* a history with a captioned photo and a photo without any text was
\* sanitized for a model known not to support images
C17_Witness ==
    /\ ctxOp = "sanitize"
    /\ supportsImages = "no"
    /\ Len(ctxIn) = 2
    /\ ctxIn[1].content = PartsContent(<<TextPart("[Ann] look"),
                                         ImagePart("data:image/jpeg;base64")>>)
    /\ ctxIn[2].content = PartsContent(<<ImagePart("data:image/jpeg;base64")>>)
    /\ ctxOut[1].content = TextContent("[Ann] look")
    /\ ctxOut[2].content = TextContent("[image]")

----------------------------------------------------------------------------
(* Config wizard properties                                                 *)

\* C18: after "Set API Key" on a chat, the next text message T of the chat is
\* consumed by the wizard: the chat's apiKey is then T and the wizard is idle;
\* a text message of a chat whose wizard is idle is not consumed: it leaves
\* the chat config unchanged and the wizard idle
C18_SetKeyThenTextThenIdle ==
    [][ \A c \in Chats :
          (updates' = updates + 1 /\ lastUpdate'.u.kind = "text" /\ lastUpdate'.u.chat = c) =>
              /\ (isInWizard(c) /\ wizardState[c] = "api_key") =>
                    /\ getChatConfig(c)'.apiKey = lastUpdate'.u.text
                    /\ ~isInWizard(c)'
              /\ ~isInWizard(c) =>
                    /\ getChatConfig(c)' = getChatConfig(c)
                    /\ ~isInWizard(c)' ]_vars

\* C19: a text message of a chat with pending wizard state goes to the handler
\* that begins with handleWizardInput: no command handler takes it first
C19_WizardHasFirstRefusal ==
    (lastUpdate.u.kind = "text" /\ lastUpdate.pending) => lastUpdate.route = "text"

\* C20: after the close, reset-key or reset-URL action of the panel the chat
\* has no pending wizard state
C20_TerminalActionEndsWizard ==
    (/\ lastUpdate.route = "cfg"
     /\ lastUpdate.u.data \in {"cfg:close", "cfg:reset_key", "cfg:reset_url"})
        => ~isInWizard(lastUpdate.u.chat)

----------------------------------------------------------------------------
(* Chat-config store and credential properties                              *)

\* C21: the chat-config store never holds a record with neither an apiKey nor
\* a baseUrl, and a reset of one field leaves the other field as it was
C21_NoEmptyRecordResetKeepsOther ==
    /\ [](\A c \in DOMAIN cfgStore :
            cfgStore[c].apiKey # NoValue \/ cfgStore[c].baseUrl # NoValue)
    /\ [][ \A c \in Chats :
            /\ (cfgOp' = [op |-> "reset_key", chat |-> c])
                  => getChatConfig(c)'.baseUrl = getChatConfig(c).baseUrl
            /\ (cfgOp' = [op |-> "reset_url", chat |-> c])
                  => getChatConfig(c)'.apiKey = getChatConfig(c).apiKey ]_vars

\* the key of a chat with both fields was reset and its base URL is still
\* there, while another chat lost its record with its only field
C21_Witness ==
    /\ cfgOp.op = "reset_key"
    /\ MapHas(cfgStore, cfgOp.chat)
    /\ cfgStore[cfgOp.chat] = [apiKey |-> NoValue, baseUrl |-> "https://example.test/v1"]
    /\ \E c \in Chats : c # cfgOp.chat /\ ~MapHas(cfgStore, c)

\* C22: an allow-listed chat always gets the global credentials; any other
\* chat with a key of its own gets that key with its own base URL, or the
\* default base URL when it has none; hasAccess holds exactly for the
\* allow-listed chats and the chats with a key of their own
C22_CredentialResolution ==
    \A c \in Chats :
        /\ c \in AllowedIds => getCredentials(c) = NoConfig
        /\ (c \notin AllowedIds /\ getChatConfig(c).apiKey # NoValue) =>
              /\ getCredentials(c).apiKey = getChatConfig(c).apiKey
              /\ getCredentials(c).baseUrl =
                    IF getChatConfig(c).baseUrl # NoValue
                    THEN getChatConfig(c).baseUrl ELSE BaseUrl
        /\ hasAccess(c) <=> (c \in AllowedIds \/ getChatConfig(c).apiKey # NoValue)

\* an allow-listed chat has a key and a base URL of its own, one other chat
\* has a key and a base URL, and one has a key only
C22_Witness ==
    /\ \E c \in AllowedIds :
          getChatConfig(c).apiKey # NoValue /\ getChatConfig(c).baseUrl # NoValue
    /\ \E c \in Chats \ AllowedIds :
          getChatConfig(c).apiKey # NoValue /\ getChatConfig(c).baseUrl # NoValue
    /\ \E c \in Chats \ AllowedIds :
          /\ getChatConfig(c).apiKey # NoValue /\ getChatConfig(c).baseUrl = NoValue
          /\ getCredentials(c).baseUrl = BaseUrl

----------------------------------------------------------------------------
(* Persistence properties                                                   *)

\* C23: a load of the memories, the chat configs or the summaries from a
\* file that is missing or does not parse gives an empty store, and no load
\* raises an error
C23_BadFileLoadsEmpty ==
    [][ diskLog'.loads = diskLog.loads + 1 =>
          /\ ~diskLog'.raised
          /\ disk.mem.kind \in {"missing", "partial"} => store' = EmptyMap
          /\ disk.cfg.kind \in {"missing", "partial"} => cfgStore' = EmptyMap
          /\ disk.sum.kind \in {"missing", "partial"} => summaries' = EmptyMap ]_vars

\* the process started again with a memories file that does not parse, a
\* summaries file that is missing and a chat-configs file that is intact
C23_Witness ==
    /\ diskLog.loads > 0
    /\ disk.mem.kind = "partial"
    /\ disk.sum.kind = "missing"
    /\ disk.cfg.kind = "json"
    /\ store = EmptyMap
    /\ cfgStore # EmptyMap
    /\ writes = {}

\* C24: when the process ends while a store is being written for one chat,
\* every other chat's entries in that store are, after the reload, what they
\* were before
C24_CrashKeepsOtherChats ==
    [][ diskLog'.loads = diskLog.loads + 1 =>
          \A w \in writes : \A c \in Chats \ {w.chat} :
              /\ w.file = "mem" => getMemories(c)' = getMemories(c)
              /\ w.file = "sum" =>
                    /\ MapHas(summaries', c) = MapHas(summaries, c)
                    /\ MapHas(summaries, c) => summaries'[c] = summaries[c] ]_vars

----------------------------------------------------------------------------
(* Exchange properties                                                      *)

\* C25: once a text or photo message is admitted and its backend call is in
\* flight, the rate-limit state of its thread is set and its rolling history
\* already holds the user message
C25_AdmissionMutatesRateAndHistory ==
    \A t \in tasks :
        (t.kind \in {"text", "vision"} /\ t.pc = "chat") =>
            /\ MapHas(lastCall, t.key)
            /\ MapHas(history, t.key)
            /\ \E i \in 1..Len(history[t.key]) : history[t.key][i] = t.userMsg

\* C26: when chat() returns an empty result (the iteration cap is exhausted, or
\* the response carries no content), the exchange body replies that it could
\* not generate a response, lets no error escape, and leaves the rolling
\* history as it was
C26_EmptyResultIsReported ==
    [][(chPc = "returned" /\ chPc' = "idle" /\ chResult = "") =>
          /\ talk'.replies # <<>>
          /\ Head(talk'.replies) =
                 (IF talk'.kind = "vision"
                  THEN "I couldn't generate a response for this image. Please try again."
                  ELSE "I couldn't generate a response. Please try again.")
          /\ ~talk'.escaped
          /\ history' = history]_vars

\* an exchange whose chat() call ran into the iteration cap has been answered
C26_Witness ==
    /\ chPc = "idle"
    /\ talk.calls >= 1
    /\ talk.text = ""
    /\ chIter = MaxIterations + 1
    /\ talk.replies # <<>>

\* the lines of the system message for n entries [mem_k3] blue
RECURSIVE BlueLines(_)
BlueLines(n) == IF n = 0 THEN "" ELSE "\n- [mem_k3] blue" \o BlueLines(n - 1)

\* the system message of a chat whose list of memories holds the entry
\* [mem_k3] blue n times and nothing else; n = 0 is a chat without memories
RecallSystem(n) ==
    TextContent("SYSTEM_PROMPT" \o "\n\n## Memory\n\n" \o MemoryToolsNote
                \o (IF n = 0 THEN ""
                    ELSE "\n\nSaved memories for this chat:" \o BlueLines(n))
                \o "\n\n" \o SenderPrefixNote)

\* the first exchange started from no memories and the model issued
\* save_memory("blue") in it, once, and nothing else
SavedInFirst(t) ==
    /\ t.calls >= 1
    /\ t.atStart[1] = <<>>
    /\ t.tools[1] = <<SaveBlue>>

IsBlue(entry) == entry.id = "mem_k3" /\ entry.content = "blue"

\* C27 as stated: starting from no memories for a chat, an exchange in which
\* the model calls save_memory(content) leaves exactly one entry with that
\* content in the chat's store, and every request of every later chat() call
\* for the chat carries that entry, id and content, in its system message
C27_SavedMemoryReachesLaterCalls ==
    SavedInFirst(talk) =>
        /\ (talk.calls = 1 /\ chPc # "idle") =>
              /\ Len(getMemories(chChat)) = 1
              /\ IsBlue(getMemories(chChat)[1])
        /\ talk.calls >= 2 =>
              \A i \in 1..Len(chReqs) :
                  /\ chReqs[i][1].role = "system"
                  /\ \E n \in 1..MaxRecallResponses :
                        chReqs[i][1].content = RecallSystem(n)

\* C27, amended: the exchange that saves leaves exactly one entry with that
\* content in the chat's store, up to its end; every request of a later
\* chat() call that starts while the entry is still stored carries it, id
\* and content, in its system message, and no request of a call that starts
\* after delete_memory or /forget has removed it does
C27_SavedMemoryReachesCallsWhileStored ==
    [][ SavedInFirst(talk') =>
          /\ (talk.calls = 1 /\ chPc # "idle") =>
                /\ Len(getMemories(chChat)') = 1
                /\ IsBlue(getMemories(chChat)'[1])
          /\ talk'.calls >= 2 =>
                LET atStart == talk'.atStart[talk'.calls]
                    stored  == \E j \in 1..Len(atStart) : IsBlue(atStart[j])
                IN  \A i \in 1..Len(chReqs') :
                        /\ chReqs'[i][1].role = "system"
                        /\ stored => chReqs'[i][1].content = RecallSystem(Len(atStart))
                        /\ ~stored => chReqs'[i][1].content = RecallSystem(0) ]_vars

\* a third chat() call, made after the entry saved by the first one was
\* removed, has issued a request after a tool round of its own, the second
\* call having started with the entry stored
C27_Witness ==
    /\ SavedInFirst(talk)
    /\ talk.calls = 3
    /\ Len(talk.atStart[2]) = 1
    /\ IsBlue(talk.atStart[2][1])
    /\ talk.atStart[3] = <<>>
    /\ Len(chReqs) >= 2
    /\ chReqs[1][1].content = RecallSystem(0)

\* C29: onChunk is invoked only with content of the final, content-producing
\* response of a chat() call, never with content of a response that carries
\* tool invocations
C29_ChunksOnlyFromFinalResponse ==
    \A i \in 1..Len(talk.chunks) : ~talk.chunks[i].tools

----------------------------------------------------------------------------
(* Error handling properties                                                *)

\* C28: no failure met while an inbound update is handled escapes uncaught,
\* the failures of the persistence writes started by the config wizard and by
\* the config reset buttons included
C28_NoFailureEscapes == ~lastUpdate.escaped

\* C30: summarizeChat never passes an error on to its caller: when the backend
\* call or the write of the summary fails the call completes all the same, and
\* when the backend call fails the stored summaries are left as they were; when
\* the backend gives a non-empty text the chat's stored summary becomes that
\* text, whatever it was before, and no other chat's summary changes
C30_SummarizeFailsQuietlyReplacesWhole ==
    [][sumDone'.steps = sumDone.steps + 1 =>
          /\ sumDone'.outcome \in {"ask_failed", "persist_failed"} =>
                /\ sumDone'.done = sumDone.done + 1
                /\ Cardinality(sumTasks') = Cardinality(sumTasks) - 1
          /\ sumDone'.outcome = "ask_failed" => summaries' = summaries
          /\ sumDone'.outcome = "stored" =>
                /\ sumDone'.text \notin {"", NoValue}
                /\ MapHas(summaries', sumDone'.chat)
                /\ summaries'[sumDone'.chat] = sumDone'.text
                /\ \A c \in (DOMAIN summaries \cup DOMAIN summaries') \ {sumDone'.chat} :
                      /\ MapHas(summaries, c)
                      /\ MapHas(summaries', c)
                      /\ summaries'[c] = summaries[c]]_vars

\* after a failed backend call that left a stored summary alone, a later call
\* has replaced the summary "summary" by the text "newer"
C30_Witness ==
    /\ sumDone.outcome = "stored"
    /\ sumDone.failed >= 1
    /\ sumDone.before = "summary"
    /\ sumDone.text = "newer"
    /\ summaries[sumDone.chat] = "newer"

----------------------------------------------------------------------------
(* Recent window, rate limiter drop and failure properties                  *)

\* the lines of a rendered log, in order, for entries that differ in their
\* timestamps: the i-th line is the rendering of the i-th entry
RECURSIVE RenderedFrom(_, _, _)
RenderedFrom(buf, from, to) ==
    IF from > to THEN ""
    ELSE formatLogEntry(buf[from]) \o (IF from < to THEN "\n" ELSE "")
         \o RenderedFrom(buf, from + 1, to)

\* C31: for every buffer, the entries getOlderEntries returns and the entries
\* rendered in recentLog of getChatContext are disjoint and together are the
\* buffer in order: recentLog renders exactly the entries after the older
\* ones, at most 20 of them; getChatContext is undefined exactly when the chat
\* has no buffered entries
C31_OlderAndRecentPartitionBuffer ==
    \A c \in LogChats \cup {3} :
        LET buf   == LogBuffer(c)
            older == Len(getOlderEntries(c))
        IN  /\ getChatContext(c).present = (Len(buf) > 0)
            /\ getOlderEntries(c) = FirstN(buf, older)
            /\ Len(buf) - older <= 20
            /\ getChatContext(c).present =>
                  getChatContext(c).recentLog = RenderedFrom(buf, older + 1, Len(buf))

\* a buffer of 30 entries: 10 are older, the other 20 are rendered
C31_Witness ==
    /\ Len(LogBuffer(BusyChat)) = 30
    /\ Len(getOlderEntries(BusyChat)) = 10
    /\ getChatContext(BusyChat).present
    /\ getChatContext(BusyChat).recentLog = RenderedFrom(LogBuffer(BusyChat), 11, 30)

\* C32: a message denied by the rate limiter is dropped with no effect: the
\* last-admission time of its thread key stays as it was (so the denial does
\* not extend the cooldown), no backend request is issued, no exchange starts,
\* and the rolling histories are unchanged
C32_DeniedRequestHasNoEffect ==
    [][(/\ updates' = updates + 1
        /\ lastUpdate'.route = "text"
        /\ ~lastUpdate'.pending
        /\ LET k == threadKey(lastUpdate'.u.chat, lastUpdate'.u.thread)
           IN  MapHas(lastCall, k) /\ now - lastCall[k] < 2000)
       => /\ lastCall' = lastCall
          /\ llmCalls' = llmCalls
          /\ tasks' = tasks
          /\ history' = history]_vars

\* a text message of a thread that has a history was denied some time after
\* the thread's last admission
C32_Witness ==
    LET k == threadKey(lastUpdate.u.chat, lastUpdate.u.thread)
    IN  /\ lastUpdate.route = "text"
        /\ ~lastUpdate.pending
        /\ ~lastUpdate.admitted
        /\ MapHas(lastCall, k)
        /\ lastCall[k] < now
        /\ now - lastCall[k] < 2000
        /\ MapHas(history, k)
        /\ tasks = {}

\* C33: when the backend call of an admitted message fails, chat() throws to
\* the exchange body without issuing another request; the body catches the
\* error, replies with its generic retry message and nothing else, lets
\* nothing escape, ends the exchange, and leaves the rolling history as it was
C33_BackendFailureIsReportedOnce ==
    [][/\ (chPc = "waiting" /\ chErr' = "backend" /\ chResps' = chResps /\ chPc' # "waiting")
          => /\ chPc' = "threw"
             /\ chReqs' = chReqs
             /\ history' = history
       /\ (chPc = "waiting" /\ chResps' = chResps) => chReqs' = chReqs
       /\ chPc = "threw"
          => /\ chPc' = "idle"
             /\ chReqs' = chReqs
             /\ history' = history
             /\ tasks' = {}
             /\ ~talk'.escaped
             /\ talk'.replies =
                   IF talk'.kind = "vision"
                   THEN <<"Failed to process the image. Please try again or send text instead.">>
                   ELSE <<"Something went wrong, please try again.">>]_vars

\* the second request of a text exchange failed and the user was told to retry
C33_Witness ==
    /\ chPc = "idle"
    /\ chErr = "backend"
    /\ talk.kind = "text"
    /\ talk.text = NoValue
    /\ talk.replies = <<"Something went wrong, please try again.">>
    /\ Len(chReqs) = 2
    /\ tasks = {}

\* C34: however concurrent addMemory, deleteMemory and clearMemories calls
\* interleave, once every call has completed the memories file holds exactly
\* the in-memory store: no completed change is missing from it
C34_FileEqualsStoreWhenQuiet ==
    (writes = {} /\ disk.mem.kind # "missing") => LoadStore(disk.mem) = store

\* C35: while the model is known not to support image input, no request made
\* by the text handler or by the photo handler carries an image segment,
\* whatever image messages the rolling history of the thread holds
C35_NoImageForTextOnlyModel ==
    (supportsImages = "no" /\ ctxOp \in {"text", "photo"}) =>
        \A i \in 1..Len(ctxOut) :
            \/ ~ctxOut[i].content.isArray
            \/ \A j \in 1..Len(ctxOut[i].content.parts) :
                  ctxOut[i].content.parts[j].type # "image_url"

\* the text handler made a request over a history that holds an image message,
\* for a model known not to support images
C35_Witness ==
    /\ supportsImages = "no"
    /\ ctxOp = "text"
    /\ \E i \in 1..Len(ctxIn) : HasImage(ctxIn[i])
    /\ Len(ctxOut) = Len(ctxIn) + 1

\* C36: the rolling history of a thread never holds more than 15 messages, a
\* change of it other than /reset keeps the old messages in order and drops
\* them from the front only, and so the context of a request is built from at
\* most 16 messages
C36_HistoryHoldsAtMostFifteen ==
    [][\A k \in DOMAIN history' :
          /\ Len(history'[k]) <= 15
          /\ \A t \in tasks' : t.key = k => Len(history'[k] \o <<t.userMsg>>) <= 16
          /\ (k \in DOMAIN history /\ history'[k] # history[k]) =>
                LET old  == history[k]
                    new  == history'[k]
                    gone == Len(old) + 2 - Len(new)
                IN  /\ gone \in 0..2
                    /\ gone > 0 => Len(new) = 15
                    /\ SubSeq(new, 1, Len(new) - 2) = SubSeq(old, gone + 1, Len(old))]_vars

\* a history is full and its oldest user message has been evicted
C36_Witness ==
    \E k \in DOMAIN history :
        /\ Len(history[k]) = 15
        /\ history[k][1].role = "assistant"

\* C37: whatever the interleaving of the exchanges in flight on a thread, every
\* user message of its rolling history is immediately followed by the answer
\* of its own exchange, and a history that is not empty ends with an answer
C37_UserAndReplyStoredAsPair ==
    \A k \in DOMAIN history :
        /\ \A i \in 1..Len(history[k]) :
              history[k][i].role = "user" =>
                  /\ i < Len(history[k])
                  /\ history[k][i + 1] =
                        Msg("assistant", TextContent(HistReplyTo(history[k][i])),
                            <<>>, NoValue)
        /\ Len(history[k]) > 0 => history[k][Len(history[k])].role = "assistant"

\* the exchange of the first update is still in flight while a later exchange
\* on the same thread has stored its pair
C37_Witness ==
    \E t \in tasks :
        /\ t.id = 1
        /\ t.pc = "chat"
        /\ MapHas(history, t.key)
        /\ Len(history[t.key]) >= 2
        /\ history[t.key][1].role = "user"

\* C38: a text message taken by the config wizard starts no exchange: no
\* request goes to the LLM backend, no rolling history changes and the rate
\* limiter records no admission
C38_WizardInputStaysOutOfChat ==
    [][(updates' = updates + 1 /\ lastUpdate'.route = "text" /\ lastUpdate'.pending) =>
          /\ llmCalls' = llmCalls
          /\ tasks' = tasks
          /\ history' = history
          /\ lastCall' = lastCall]_vars

\* the wizard took a text in a private chat whose thread was free to be
\* answered, and the text became the key of the chat
C38_Witness ==
    /\ lastUpdate.route = "text"
    /\ lastUpdate.pending
    /\ ChatType(lastUpdate.u.chat) = "private"
    /\ canRespond(threadKey(lastUpdate.u.chat, lastUpdate.u.thread))
    /\ MapHas(cfgStore, lastUpdate.u.chat)
    /\ cfgStore[lastUpdate.u.chat].apiKey = lastUpdate.u.text

\* C39: /reset removes the rolling history of the thread it was sent in and
\* nothing else: the other histories, the memories, the chat configs and the
\* times of the rate limiter stay; /forget leaves the chat without memories
\* and every rolling history as it was
C39_ResetAndForgetTouchOnlyTheirOwn ==
    [][/\ (updates' = updates + 1 /\ lastUpdate'.route = "reset") =>
            LET tk == threadKey(lastUpdate'.u.chat, lastUpdate'.u.thread)
            IN  /\ DOMAIN history' = DOMAIN history \ {tk}
                /\ \A k \in DOMAIN history' : history'[k] = history[k]
                /\ store' = store
                /\ cfgStore' = cfgStore
                /\ lastCall' = lastCall
       /\ (updates' = updates + 1 /\ lastUpdate'.route = "forget") =>
            /\ MapHas(store', lastUpdate'.u.chat) => store'[lastUpdate'.u.chat] = <<>>
            /\ history' = history]_vars

\* /reset has been handled for a thread that had been answered and whose chat
\* has a memory, while another thread keeps its history
C39_Witness ==
    LET tk == threadKey(lastUpdate.u.chat, lastUpdate.u.thread)
    IN  /\ lastUpdate.route = "reset"
        /\ ~MapHas(history, tk)
        /\ MapHas(lastCall, tk)
        /\ getMemories(lastUpdate.u.chat) # <<>>
        /\ \E k \in DOMAIN history : k # tk /\ Len(history[k]) >= 2

\* C40: a call of addMemory, deleteMemory, clearMemories or executeMemoryTool
\* changes the memory list of no chat but the one it was called for, and a
\* tool call with an unknown name changes no list and is answered with the
\* text "Unknown tool: " and the name
C40_MemoryCallsAreChatScoped ==
    [][/\ \A b \in MemChats :
             (IF MapHas(store', b) THEN store'[b] ELSE <<>>) # getMemories(b) =>
                 IF chatVars' # chatVars
                 THEN chChat = b
                 ELSE memRet'.chatId = b
       /\ ( /\ Len(chResps') = Len(chResps) + 1
            /\ chResps'[Len(chResps')].calls = <<OtherTool>> ) =>
             /\ store' = store
             /\ chMsgs'[Len(chMsgs')].role = "tool"
             /\ chMsgs'[Len(chMsgs')].tool_call_id = OtherTool.id
             /\ chMsgs'[Len(chMsgs')].content =
                    TextContent("Unknown tool: search_web")]_vars

\* an unknown tool has just been answered for one chat while that chat and
\* the other one both hold memories
C40_Witness ==
    /\ chPc = "waiting"
    /\ Len(chMsgs) > 0
    /\ chMsgs[Len(chMsgs)].content = TextContent("Unknown tool: search_web")
    /\ \A c \in MemChats : getMemories(c) # <<>>

====
